---- MODULE Spec2Model ----
(***************************************************************************)
(* Call session pipeline of talkmybio: the CallModal controller            *)
(* (src/src/components/CallModal.tsx), the VideoRecorder                   *)
(* (src/src/lib/recording.ts) and the completion poller                    *)
(* (checkProcessingStatus).                                                *)
(*                                                                         *)
(* One CallModal instance is modelled.  A React commit (state update,      *)
(* re-render, effect cleanup and effect body) is taken atomically with the *)
(* handler step that caused it.  Every parent in src/ passes an onClose    *)
(* that is re-created on each parent render, so each parent render re-runs *)
(* the event-handler effect (CallModal.tsx:151-281).                       *)
(*                                                                         *)
(* Environment (not code of the repository):                               *)
(*  - getUserMedia grants (a fresh stream with one audio and one video     *)
(*    track) or denies;                                                    *)
(*  - the calling client connects a call at most once, reports call_ended  *)
(*    at most once per connected period (stopCall is a no-op unless        *)
(*    connected), and may report errors while starting or connected;       *)
(*  - MediaRecorder: start(timeslice) delivers dataavailable every         *)
(*    timeslice; stop() makes the recorder inactive and queues one task    *)
(*    that delivers dataavailable (the data gathered since the last one)   *)
(*    followed by stop; all tracks ending does the same;                   *)
(*  - the blob store resolves a download URL only for a stored object.     *)
(*                                                                         *)
(* Specifications:                                                         *)
(*  - Spec: one Start Call click per instance, the modal opened up to      *)
(*    MaxOpens times, capture of up to MaxT seconds;                       *)
(*  - SpecRetry: up to MaxRetryCalls clicks within MaxRetryOpens openings, *)
(*    calls shorter than one second of capture;                            *)
(*  - SpecRecord: up to MaxRetryCalls clicks within MaxRetryOpens openings *)
(*    with capture of up to MaxRetryT seconds, without the poller;         *)
(*  - FairSpec: Spec with timers, queued events and promises scheduled     *)
(*    fairly.                                                              *)
(*  - SpecUpload: uploadChunk of both versions of the recorder called on   *)
(*    its own, up to MaxUploads times, with blobs of up to MaxBlob parts;  *)
(*  - SpecPlayback: the video/audio handlers of the story view             *)
(*    (src/src/components/StoryView.tsx:122-192) on one media session,     *)
(*    times in units of 50 ms up to MaxTime.                               *)
(*  - SpecChunkRefs: one call recorded by the recorder of                  *)
(*    src/unnamed/part_007, whose non-final uploads succeed, settling in   *)
(*    any order.                                                           *)
(*  - SpecSessions: the same handlers on the two sessions of one story     *)
(*    page, each called with its session id, videos of MaxShownTime.       *)
(* The poll counter saturates at MaxPolls: ticks are never blocked by it.  *)
(***************************************************************************)
EXTENDS Integers, Sequences, FiniteSets, TLC

\* ---- bounds of the model ----
MaxCalls == 1      \* Start Call clicks on the instance (Spec)
MaxRetryCalls == 2 \* Start Call clicks on the instance (SpecRetry)
MaxOpens == 2      \* times the parent opens the modal (Spec)
MaxRetryOpens == 1 \* times the parent opens the modal (SpecRetry)
MaxT     == 10     \* seconds of capture per recorder (Spec)
MaxRetryT == 6     \* seconds of capture per recorder (SpecRecord)
MaxPolls == 2      \* poll ticks counted per interval timer
MaxReads == 2      \* session-record reads in flight per session
MaxUploads == 2    \* uploadChunk calls per logical chunk (SpecUpload)
MaxUploadNumber == 0  \* highest non-final chunk number uploaded (SpecUpload)
MaxBlob  == 2      \* segments in an uploaded blob (SpecUpload)
MaxTime  == 12     \* length of the video, in units of 50 ms (SpecPlayback)
MaxStep  == 5      \* longest gap between two timeupdate events, same unit
MaxShownTime == 4  \* length of each video, same unit (SpecSessions)
MaxShownStep == 3  \* longest gap between two timeupdate events (SpecSessions)

\* ---- program constants ----
TickLen      == 5      \* mediaRecorder.start(5000), in seconds
ProgressStep == 5      \* Math.min(prev + 5, 90)
ProgressCap  == 90
ProgressDone == 100    \* setProcessingProgress(100)
FinalNumber  == -1     \* number of the final chunk

Attempts == 1..MaxRetryCalls
NoId     == 0          \* null / undefined id, ref or handle
StoryId  == 1          \* data.storyId of the create-web-call response
UnloadCaller == -1     \* the stop() call made by handleBeforeUnload
existingStoryId == StoryId  \* the prop of a parent that continues a story
SyncThreshold == 2     \* Math.abs(...) > 0.1 s, in units of 50 ms
HaveCurrentData == 2   \* video.readyState >= 2
UploadSession == 1     \* this.sessionId of the recorder that uploads

VARIABLES
  \* parent and props
  mounted, isOpen, opens,
  \* useState
  isCallActive, isMicPermissionGranted, isCameraPermissionGranted,
  isLoading, isProcessing, processingProgress,
  currentStoryId, currentSessionId,
  \* useRef
  retellWebClientRef, streamRef, timeoutRef, processingIntervalRef,
  videoRecorderRef,
  \* devices
  permPending, streams,
  \* transport
  attempts, call, clientConnected, timeouts,
  \* recorder objects, keyed by the attempt whose call_started created them
  rec,
  \* handleCallEnded invocations, keyed by the attempt whose call ended
  ended,
  \* poller
  intervals, polls, reads,
  \* blob store and session records
  store, sessions, reported,
  \* history
  permRequested, wasReady, observed,
  \* the upload client on its own: calls made and URLs returned per chunk,
  \* the objects stored under generated names, the names generated
  uploads, returned, uuidStore, uuids,
  \* playback of one session in StoryView: the media elements, the mute flag,
  \* the canplay listeners waiting, whether the last timeupdate reseeked
  loaded, video, audio, audioMuted, canplayListeners, reseeked,
  \* playback of the sessions of one story page, by session id: the video
  \* and audio elements in videoRefs and audioRefs, the mute flags of the
  \* audioMuted state, the canplay listeners waiting on each video
  videoRefs, audioRefs, audioMutedOf, canplayListenersOf

vars == << mounted, isOpen, opens,
           isCallActive, isMicPermissionGranted, isCameraPermissionGranted,
           isLoading, isProcessing, processingProgress,
           currentStoryId, currentSessionId,
           retellWebClientRef, streamRef, timeoutRef, processingIntervalRef,
           videoRecorderRef,
           permPending, streams,
           attempts, call, clientConnected, timeouts,
           rec, ended, intervals, polls, reads,
           store, sessions, reported,
           permRequested, wasReady, observed,
           uploads, returned, uuidStore, uuids,
           loaded, video, audio, audioMuted, canplayListeners, reseeked,
           videoRefs, audioRefs, audioMutedOf, canplayListenersOf >>

uiVars     == << isCallActive, isMicPermissionGranted, isCameraPermissionGranted,
                 isLoading, isProcessing, processingProgress,
                 currentStoryId, currentSessionId >>
parentVars == << mounted, isOpen, opens >>
devVars    == << permPending, streams, streamRef >>
callVars   == << attempts, call, clientConnected, timeouts, timeoutRef,
                 retellWebClientRef >>
recVars    == << rec, videoRecorderRef >>
pollVars   == << intervals, polls, reads, processingIntervalRef >>
dbVars     == << store, sessions, reported >>
histVars   == << permRequested, wasReady, observed >>
upVars     == << uploads, returned, uuidStore, uuids >>
sessVars   == << videoRefs, audioRefs, audioMutedOf, canplayListenersOf >>
playVars   == << loaded, video, audio, audioMuted, canplayListeners,
                 reseeked, sessVars >>

\* ---- helpers ----
Min(a, b) == IF a < b THEN a ELSE b

\* A state setter of an unmounted component is ignored by React.
SetState(old, new) == IF mounted THEN new ELSE old

NoCall     == [stage |-> "none", client |-> NoId]
NoRecorder == [state |-> "none", session |-> NoId, stream |-> NoId,
               chunks |-> << >>, chunkNumber |-> 0, elapsed |-> 0,
               stopQueued |-> FALSE, onstop |-> NoId,
               stops |-> 0, autoStopped |-> FALSE,
               calls |-> << >>, pending |-> {},
               final |-> "none", finalFor |-> NoId]
NoEnded    == [pc |-> "none", session |-> NoId, rec |-> NoId]
\* the path (and download URL) of a chunk in the blob store
FileName(session, number) == [session |-> session, number |-> number]
NoUrl      == FileName(NoId, 0)
NoSession  == [updated |-> FALSE, videoUrl |-> NoUrl, videoComplete |-> FALSE,
               videoChunkUrl |-> NoUrl]

\* the upload client on its own: the two versions of uploadChunk and the
\* chunks handed to them
Versions      == {"recording.ts", "part_007"}
UploadNumbers == {FinalNumber} \cup 0..MaxUploadNumber
UploadKeys    == Versions \X UploadNumbers
\* the path of a chunk stored under a generated name
UuidFileName(session, number, chunkId) ==
  [session |-> session, number |-> number, chunkId |-> chunkId]
\* nothing returned yet by uploadChunk of the version
NoReturn(version) ==
  [net |-> FALSE, ok |-> FALSE, blob |-> << >>,
   url |-> IF version = "part_007" THEN UuidFileName(NoId, 0, 0) ELSE NoUrl]

\* media elements before the story is loaded
NoVideo == [currentTime |-> 0, paused |-> TRUE, readyState |-> 0, duration |-> 0,
            muted |-> TRUE]
NoAudio == [exists |-> FALSE, currentTime |-> 0, paused |-> TRUE, duration |-> 0]

\* the sessions shown on one story page
SessionIds == {1, 2}

Init ==
  /\ uploads = [k \in UploadKeys |-> 0]
  /\ returned = [k \in UploadKeys |-> NoReturn(k[1])]
  /\ uuidStore = {} /\ uuids = 0
  /\ loaded = FALSE /\ video = NoVideo /\ audio = NoAudio
  /\ audioMuted = FALSE /\ canplayListeners = 0 /\ reseeked = FALSE
  /\ videoRefs = [s \in SessionIds |-> NoVideo]
  /\ audioRefs = [s \in SessionIds |-> NoAudio]
  /\ audioMutedOf = [s \in SessionIds |-> FALSE]
  /\ canplayListenersOf = [s \in SessionIds |-> 0]
  /\ mounted = TRUE /\ isOpen = FALSE /\ opens = 0
  /\ isCallActive = FALSE
  /\ isMicPermissionGranted = FALSE /\ isCameraPermissionGranted = FALSE
  /\ isLoading = FALSE /\ isProcessing = FALSE /\ processingProgress = 0
  /\ currentStoryId = NoId /\ currentSessionId = NoId
  /\ retellWebClientRef = 1
  /\ streamRef = NoId /\ timeoutRef = NoId /\ processingIntervalRef = NoId
  /\ videoRecorderRef = NoId
  /\ permPending = 0 /\ streams = << >>
  /\ attempts = 0 /\ call = [c \in Attempts |-> NoCall]
  /\ clientConnected = FALSE /\ timeouts = {}
  /\ rec = [c \in Attempts |-> NoRecorder]
  /\ ended = [c \in Attempts |-> NoEnded]
  /\ intervals = {} /\ polls = [c \in Attempts |-> 0]
  /\ reads = [c \in Attempts |-> 0]
  /\ store = {} /\ sessions = [c \in Attempts |-> NoSession] /\ reported = {}
  /\ permRequested = FALSE /\ wasReady = FALSE
  /\ observed = [c \in Attempts |-> FALSE]

\* ---- devices ----
\* track.stop() on both tracks of stream id; the count of stop calls per
\* track is kept (2 stands for "more than once").
StopTracks(ss, id) ==
  IF id = NoId THEN ss
  ELSE [ss EXCEPT ![id] = [audio |-> Min(@.audio + 1, 2),
                           video |-> Min(@.video + 1, 2)]]

StopAudioTrack(ss, id) ==
  IF id = NoId THEN ss
  ELSE [ss EXCEPT ![id] = [@ EXCEPT !.audio = Min(@ + 1, 2)]]

TrackLive(n) == n = 0
HeldLive(ss, id) ==
  id # NoId /\ (TrackLive(ss[id].audio) \/ TrackLive(ss[id].video))

\* A MediaRecorder whose only track ended becomes inactive and queues its
\* dataavailable and stop events.
TracksEnded(rs, id) ==
  [c \in Attempts |->
     IF id # NoId /\ rs[c].state = "recording" /\ rs[c].stream = id
     THEN [rs[c] EXCEPT !.state = "inactive", !.stopQueued = TRUE,
                        !.autoStopped = TRUE]
     ELSE rs[c]]

\* ---- VideoRecorder.stop, up to the promise it returns ----
\* The onstop handler of the caller replaces the one installed before;
\* mediaRecorder.stop() queues the stop event of a recording recorder only.
\* stops counts the calls (2 stands for "twice or more").
RecStop(r, who) ==
  IF r.state = "unstarted" THEN r
  ELSE IF r.state = "recording"
       THEN [r EXCEPT !.onstop = who, !.state = "inactive", !.stopQueued = TRUE,
                      !.stops = Min(@ + 1, 2)]
       ELSE [r EXCEPT !.onstop = who, !.stops = Min(@ + 1, 2)]

\* How the promise of stop() stands when stop() returns: resolved ([] before
\* the recorder was ready), pending on the stop event, or rejected where
\* mediaRecorder.stop() on an inactive recorder throws InvalidStateError
\* (engines differ: throws).
StopResult(r, throws) ==
  IF r.state = "unstarted" THEN "resolved"
  ELSE IF r.state = "recording" THEN "pending"
  ELSE IF throws THEN "rejected" ELSE "pending"

RecStopAudio(ss, r) ==
  IF r.state = "unstarted" THEN ss ELSE StopAudioTrack(ss, r.stream)

\* ---- VideoRecorder: ondataavailable with event.data.size > 0 ----
\* The segment is pushed, one blob is built from all segments so far and
\* handed to uploadChunk under the next chunk number.
\* The blob as it would be were it built from the new segment alone.
DeltaBlob(chunks) == << chunks[Len(chunks)] >>

\* new Blob(this.chunks): every segment pushed so far, in order
FullBlob(chunks) == chunks

OnDataAvailable(r) ==
  LET chunks == Append(r.chunks, Len(r.chunks) + 1)
      chunk  == [number |-> r.chunkNumber, blob |-> FullBlob(chunks),
                 captured |-> Len(chunks)]
  IN [r EXCEPT !.chunks = chunks,
               !.chunkNumber = r.chunkNumber + 1,
               !.calls = Append(r.calls, chunk),
               !.pending = r.pending \cup {chunk.number}]

\* ---- VideoRecorder.stop: the onstop handler ----
\* new Blob(this.chunks): every segment recorded so far, in order
FinalBlob(chunks) == chunks

\* The handler as it would run had every stop() call added a listener of its
\* own instead of assigning onstop.
OnStopEveryCall(r) ==
  LET finalChunk == [number |-> -1, blob |-> FinalBlob(r.chunks),
                     captured |-> Len(r.chunks)]
      once       == Append(r.calls, finalChunk)
  IN [r EXCEPT !.calls = IF r.stops > 1 THEN Append(once, finalChunk) ELSE once,
               !.final = "bytes",
               !.finalFor = r.onstop]

OnStop(r) ==
  LET finalChunk == [number |-> FinalNumber, blob |-> FinalBlob(r.chunks),
                     captured |-> Len(r.chunks)]
  IN [r EXCEPT !.calls = Append(r.calls, finalChunk),
               !.final = "bytes",
               !.finalFor = r.onstop]

\* ---- VideoRecorder.uploadChunk ----
\* getDownloadURL as it would behave did it resolve for any path.
StoredOrNot(st, path) == TRUE

\* getDownloadURL resolves for the path of a stored object only.
Stored(st, path) == \E o \in st : o.path = path

UploadBytes(st, path, blob) ==
  {o \in st : o.path # path} \cup {[path |-> path, blob |-> blob]}

\* uploadBytes runs for the final chunk only.
UploadsBytes(number) == number = FinalNumber

FinalChunkOf(r) == r.calls[Len(r.calls)]

\* ---- the calling client ----
Listening == mounted

OnCurrentClient(c) == call[c].client = retellWebClientRef

\* the call whose end the client reports
EndingCall ==
  LET joined == {c \in Attempts : OnCurrentClient(c) /\ call[c].stage = "joined"}
  IN CHOOSE c \in joined : \A d \in joined : d <= c

TornDown(cs) ==
  [c \in Attempts |->
     IF cs[c].client = retellWebClientRef /\ cs[c].stage = "joined"
     THEN [cs[c] EXCEPT !.stage = "over"]
     ELSE IF cs[c].client = retellWebClientRef /\ cs[c].stage = "starting"
          THEN [cs[c] EXCEPT !.stage = "failed"]
          ELSE cs[c]]

\* clearInterval(processingIntervalRef.current) in the cleanup of the
\* event-handler effect
ClearInterval(is) == is \ {processingIntervalRef}

\* clearInterval(processingIntervalRef.current) in checkProcessingStatus
ObservedClear(is) == is \ {processingIntervalRef}

\* clearTimeout(timeoutRef.current)
ClearTimeout(ts) == ts \ {timeoutRef}

endedVars == << isCallActive, isProcessing, processingProgress,
                ended, streams, streamRef, rec >>

\* ---- handleCallEnded, up to its first suspension ----
\* key names the invocation; unload: handleBeforeUnload is the caller of
\* stopCall and stops the recorder itself right after.
handleCallEnded(key, unload, throws) ==
  LET ids   == currentStoryId # NoId /\ currentSessionId # NoId
      r     == videoRecorderRef
      stops == ids /\ r # NoId
      res   == IF stops THEN StopResult(rec[r], throws) ELSE "resolved"
      rec1  == IF stops THEN [rec EXCEPT ![r] = RecStop(@, key)] ELSE rec
      ss1   == IF stops THEN RecStopAudio(streams, rec[r]) ELSE streams
      rec2  == IF unload /\ r # NoId
               THEN [rec1 EXCEPT ![r] = RecStop(@, UnloadCaller)] ELSE rec1
      ss2   == IF unload /\ r # NoId THEN RecStopAudio(ss1, rec1[r]) ELSE ss1
      fin   == ~ids \/ res = "rejected"
  IN /\ isCallActive' = FALSE
     /\ isProcessing' = TRUE
     /\ processingProgress' = 0
     /\ ended' = [ended EXCEPT ![key] =
                    [pc |-> IF fin THEN "done"
                            ELSE IF res = "pending" THEN "stop" ELSE "delay",
                     session |-> currentSessionId,
                     rec |-> IF stops THEN r ELSE NoId]]
     /\ streams' = IF fin THEN StopTracks(ss2, streamRef) ELSE ss2
     /\ streamRef' = IF fin THEN NoId ELSE streamRef
     /\ rec' = IF fin THEN TracksEnded(rec2, streamRef) ELSE rec2

\* ---- retellWebClientRef.current.stopCall() ----
stopCall(unload, throws) ==
  IF clientConnected
  THEN /\ clientConnected' = FALSE
       /\ call' = TornDown(call)
       /\ IF Listening
          THEN handleCallEnded(EndingCall, unload, throws)
          ELSE UNCHANGED endedVars
  ELSE /\ UNCHANGED << clientConnected, call >>
       /\ IF unload /\ videoRecorderRef # NoId
          THEN /\ rec' = [rec EXCEPT ![videoRecorderRef] = RecStop(@, UnloadCaller)]
               /\ streams' = RecStopAudio(streams, rec[videoRecorderRef])
               /\ UNCHANGED << isCallActive, isProcessing, processingProgress,
                               ended, streamRef >>
          ELSE UNCHANGED endedVars

\* ================= actions =================

\* The parent opens the modal (handleStartNow).  The commit runs the cleanup
\* of the event-handler effect, the reset-on-open effect and the
\* event-handler effect again: the old client is stopped with its handlers
\* already off, dropped, and a new client is created.
Open(limit) ==
  /\ mounted /\ ~isOpen /\ opens < limit
  /\ isOpen' = TRUE /\ opens' = opens + 1 /\ UNCHANGED mounted
  /\ isCallActive' = FALSE
  /\ isMicPermissionGranted' = FALSE /\ isCameraPermissionGranted' = FALSE
  /\ isLoading' = FALSE /\ isProcessing' = FALSE /\ processingProgress' = 0
  /\ currentStoryId' = existingStoryId /\ currentSessionId' = NoId
  /\ call' = IF clientConnected THEN TornDown(call) ELSE call
  /\ clientConnected' = FALSE
  /\ retellWebClientRef' = retellWebClientRef + 1
  /\ intervals' = ClearInterval(intervals)
  \* requestPermissions()
  /\ permPending' = permPending + 1
  /\ permRequested' = TRUE /\ wasReady' = FALSE
  /\ UNCHANGED << streams, streamRef, attempts, timeouts, timeoutRef,
                  recVars, ended, polls, reads, processingIntervalRef,
                  dbVars, observed >>
  /\ UNCHANGED << upVars, playVars >>

\* requestPermissions: getUserMedia resolves with a new stream.
requestPermissionsGranted ==
  /\ permPending > 0
  /\ permPending' = permPending - 1
  /\ streams' = Append(streams, [audio |-> 0, video |-> 0])
  /\ streamRef' = Len(streams) + 1
  /\ isMicPermissionGranted' = SetState(isMicPermissionGranted, TRUE)
  /\ isCameraPermissionGranted' = SetState(isCameraPermissionGranted, TRUE)
  /\ wasReady' = (wasReady \/ mounted)
  /\ UNCHANGED << parentVars, isCallActive, isLoading, isProcessing,
                  processingProgress, currentStoryId, currentSessionId,
                  callVars, recVars, ended, pollVars, dbVars,
                  permRequested, observed >>
  /\ UNCHANGED << upVars, playVars >>

\* The rejection as it would be handled did the catch leave the permission
\* flags as they are.
requestPermissionsDeniedSilently ==
  /\ permPending > 0
  /\ permPending' = permPending - 1
  /\ UNCHANGED << parentVars, uiVars, streams, streamRef, callVars, recVars,
                  ended, pollVars, dbVars, histVars >>
  /\ UNCHANGED << upVars, playVars >>

\* requestPermissions: getUserMedia rejects.
requestPermissionsDenied ==
  /\ permPending > 0
  /\ permPending' = permPending - 1
  /\ isMicPermissionGranted' = SetState(isMicPermissionGranted, FALSE)
  /\ isCameraPermissionGranted' = SetState(isCameraPermissionGranted, FALSE)
  /\ UNCHANGED << parentVars, isCallActive, isLoading, isProcessing,
                  processingProgress, currentStoryId, currentSessionId,
                  streams, streamRef, callVars, recVars, ended, pollVars,
                  dbVars, histVars >>
  /\ UNCHANGED << upVars, playVars >>

\* The main view is rendered (not the processing view).
MainView == mounted /\ isOpen /\ ~isProcessing

\* Start Call button: startCall up to the fetch (at most limit clicks).
startCall(limit) ==
  /\ MainView /\ ~isCallActive
  /\ isMicPermissionGranted /\ isCameraPermissionGranted /\ ~isLoading
  /\ retellWebClientRef # NoId
  /\ attempts < limit
  /\ attempts' = attempts + 1
  /\ isLoading' = TRUE
  /\ timeouts' = timeouts \cup {attempts + 1}
  /\ timeoutRef' = attempts + 1
  /\ call' = [call EXCEPT ![attempts + 1] = [stage |-> "fetch", client |-> NoId]]
  /\ UNCHANGED << parentVars, isCallActive, isMicPermissionGranted,
                  isCameraPermissionGranted, isProcessing, processingProgress,
                  currentStoryId, currentSessionId, clientConnected,
                  retellWebClientRef, devVars, recVars, ended, pollVars,
                  dbVars, histVars >>
  /\ UNCHANGED << upVars, playVars >>

\* startCall resumes after the create-web-call request: the ids are set and
\* the client starts the call, or the catch block runs.
startCallFetched(c, ok) ==
  /\ call[c].stage = "fetch"
  /\ IF ok
     THEN /\ currentStoryId' = SetState(currentStoryId, StoryId)
          /\ currentSessionId' = SetState(currentSessionId, c)
          /\ call' = [call EXCEPT ![c] = [stage |-> "starting",
                                          client |-> retellWebClientRef]]
          \* the ids changed: the event-handler effect re-runs
          /\ intervals' = IF mounted THEN ClearInterval(intervals) ELSE intervals
          /\ UNCHANGED << timeouts, isLoading >>
     ELSE /\ call' = [call EXCEPT ![c] = [@ EXCEPT !.stage = "failed"]]
          /\ timeouts' = ClearTimeout(timeouts)
          /\ isLoading' = SetState(isLoading, FALSE)
          /\ UNCHANGED << currentStoryId, currentSessionId, intervals >>
  /\ UNCHANGED << parentVars, isCallActive, isMicPermissionGranted,
                  isCameraPermissionGranted, isProcessing, processingProgress,
                  attempts, clientConnected, timeoutRef, retellWebClientRef,
                  devVars, recVars, ended, polls, reads, processingIntervalRef,
                  dbVars, histVars >>
  /\ UNCHANGED << upVars, playVars >>

\* new VideoRecorder(...) and start(stream); startOk: start did not throw.
NewRecorder(startOk) ==
  [NoRecorder EXCEPT !.state = IF startOk THEN "recording" ELSE "unstarted",
                     !.session = currentSessionId,
                     !.stream = streamRef]

\* The handler as it would be without clearTimeout.
handleCallStartedKeepsTimer(c, startOk) ==
  /\ call[c].stage = "starting" /\ OnCurrentClient(c)
  /\ call' = [call EXCEPT ![c] = [@ EXCEPT !.stage = "joined"]]
  /\ clientConnected' = TRUE
  /\ IF Listening
     THEN /\ timeouts' = timeouts
          /\ isCallActive' = TRUE
          /\ isLoading' = FALSE
          /\ IF streamRef # NoId /\ currentStoryId # NoId /\ currentSessionId # NoId
             THEN /\ rec' = [rec EXCEPT ![c] = NewRecorder(startOk)]
                  /\ videoRecorderRef' = c
             ELSE UNCHANGED recVars
     ELSE UNCHANGED << timeouts, isCallActive, isLoading, recVars >>
  /\ UNCHANGED << parentVars, isMicPermissionGranted, isCameraPermissionGranted,
                  isProcessing, processingProgress, currentStoryId,
                  currentSessionId, attempts, timeoutRef, retellWebClientRef,
                  devVars, ended, pollVars, dbVars, histVars >>
  /\ UNCHANGED << upVars, playVars >>

\* The handler as it would be did it call requestPermissions again.
handleCallStartedRequests(c, startOk) ==
  /\ call[c].stage = "starting" /\ OnCurrentClient(c)
  /\ call' = [call EXCEPT ![c] = [@ EXCEPT !.stage = "joined"]]
  /\ clientConnected' = TRUE
  /\ IF Listening
     THEN /\ timeouts' = ClearTimeout(timeouts)
          /\ isCallActive' = TRUE
          /\ isLoading' = FALSE
          /\ permPending' = permPending + 1
          /\ IF streamRef # NoId /\ currentStoryId # NoId /\ currentSessionId # NoId
             THEN /\ rec' = [rec EXCEPT ![c] = NewRecorder(startOk)]
                  /\ videoRecorderRef' = c
             ELSE UNCHANGED recVars
     ELSE UNCHANGED << timeouts, isCallActive, isLoading, recVars, permPending >>
  /\ UNCHANGED << parentVars, isMicPermissionGranted, isCameraPermissionGranted,
                  isProcessing, processingProgress, currentStoryId,
                  currentSessionId, attempts, timeoutRef, retellWebClientRef,
                  streams, streamRef, ended, pollVars, dbVars, histVars >>
  /\ UNCHANGED << upVars, playVars >>

\* The client connected the call and emits call_started: handleCallStarted.
handleCallStarted(c, startOk) ==
  /\ call[c].stage = "starting" /\ OnCurrentClient(c)
  /\ call' = [call EXCEPT ![c] = [@ EXCEPT !.stage = "joined"]]
  /\ clientConnected' = TRUE
  /\ IF Listening
     THEN /\ timeouts' = ClearTimeout(timeouts)
          /\ isCallActive' = TRUE
          /\ isLoading' = FALSE
          /\ IF streamRef # NoId /\ currentStoryId # NoId /\ currentSessionId # NoId
             THEN /\ rec' = [rec EXCEPT ![c] = NewRecorder(startOk)]
                  /\ videoRecorderRef' = c
             ELSE UNCHANGED recVars
     ELSE UNCHANGED << timeouts, isCallActive, isLoading, recVars >>
  /\ UNCHANGED << parentVars, isMicPermissionGranted, isCameraPermissionGranted,
                  isProcessing, processingProgress, currentStoryId,
                  currentSessionId, attempts, timeoutRef, retellWebClientRef,
                  devVars, ended, pollVars, dbVars, histVars >>
  /\ UNCHANGED << upVars, playVars >>

\* The client reports an error: handleError.  A call that was starting has
\* failed; a joined call goes on.
handleError(c) ==
  /\ call[c].stage \in {"starting", "joined"} /\ OnCurrentClient(c)
  /\ Listening
  /\ call' = [call EXCEPT ![c] = [@ EXCEPT !.stage =
                 IF @ = "starting" THEN "failed" ELSE @]]
  /\ timeouts' = ClearTimeout(timeouts)
  /\ isLoading' = FALSE
  /\ isCallActive' = FALSE
  /\ UNCHANGED << parentVars, isMicPermissionGranted, isCameraPermissionGranted,
                  isProcessing, processingProgress, currentStoryId,
                  currentSessionId, attempts, clientConnected, timeoutRef,
                  retellWebClientRef, devVars, recVars, ended, pollVars,
                  dbVars, histVars >>
  /\ UNCHANGED << upVars, playVars >>

\* The far end hangs up or the room disconnects: the client stops the call.
callEnded(c, throws) ==
  /\ call[c].stage = "joined" /\ OnCurrentClient(c)
  /\ IF clientConnected
     THEN stopCall(FALSE, throws)
     ELSE /\ call' = [call EXCEPT ![c] = [@ EXCEPT !.stage = "over"]]
          /\ UNCHANGED << clientConnected, endedVars >>
  /\ UNCHANGED << parentVars, isMicPermissionGranted, isCameraPermissionGranted,
                  isLoading, currentStoryId, currentSessionId, attempts,
                  timeouts, timeoutRef, retellWebClientRef, permPending,
                  videoRecorderRef, pollVars, dbVars, histVars >>
  /\ UNCHANGED << upVars, playVars >>

\* End Call button.
endCall(throws) ==
  /\ MainView /\ isCallActive
  /\ retellWebClientRef # NoId
  /\ stopCall(FALSE, throws)
  /\ UNCHANGED << parentVars, isMicPermissionGranted, isCameraPermissionGranted,
                  isLoading, currentStoryId, currentSessionId, attempts,
                  timeouts, timeoutRef, retellWebClientRef, permPending,
                  videoRecorderRef, pollVars, dbVars, histVars >>
  /\ UNCHANGED << upVars, playVars >>

\* The 30 s connection timer fires: handleTimeout.
handleTimeout(t, throws) ==
  /\ t \in timeouts
  /\ timeouts' = timeouts \ {t}
  /\ isLoading' = SetState(isLoading, FALSE)
  /\ stopCall(FALSE, throws)
  /\ UNCHANGED << parentVars, isMicPermissionGranted, isCameraPermissionGranted,
                  currentStoryId, currentSessionId, attempts, timeoutRef,
                  retellWebClientRef, permPending, videoRecorderRef, pollVars,
                  dbVars, histVars >>
  /\ UNCHANGED << upVars, playVars >>

\* beforeunload while a call is active (the page stays if the user declines
\* to leave).
handleBeforeUnload(throws) ==
  /\ mounted /\ isCallActive /\ retellWebClientRef # NoId
  /\ stopCall(TRUE, throws)
  /\ UNCHANGED << parentVars, isMicPermissionGranted, isCameraPermissionGranted,
                  isLoading, currentStoryId, currentSessionId, attempts,
                  timeouts, timeoutRef, retellWebClientRef, permPending,
                  videoRecorderRef, pollVars, dbVars, histVars >>
  /\ UNCHANGED << upVars, playVars >>

\* Close button (disabled while loading).  confirmEnd: the answer to
\* window.confirm when a call is active.
handleClose(confirmEnd, throws) ==
  /\ MainView /\ ~isLoading
  /\ IF isCallActive
     THEN /\ IF confirmEnd /\ retellWebClientRef # NoId
             THEN stopCall(FALSE, throws)
             ELSE UNCHANGED << call, clientConnected, endedVars >>
          /\ UNCHANGED << parentVars, intervals >>
     ELSE /\ streams' = StopTracks(streams, streamRef)
          /\ streamRef' = NoId
          /\ rec' = TracksEnded(rec, streamRef)
          \* onClose(false): the parent closes the modal and re-renders
          /\ isOpen' = FALSE
          /\ intervals' = ClearInterval(intervals)
          /\ UNCHANGED << mounted, opens, call, clientConnected, isCallActive,
                          isProcessing, processingProgress, ended >>
  /\ UNCHANGED << isMicPermissionGranted, isCameraPermissionGranted,
                  isLoading, currentStoryId, currentSessionId, attempts,
                  timeouts, timeoutRef, retellWebClientRef, permPending,
                  videoRecorderRef, polls, reads, processingIntervalRef,
                  dbVars, histVars >>
  /\ UNCHANGED << upVars, playVars >>

\* The parent renders again for a reason of its own: the event-handler
\* effect is cleaned up and re-run on the same client.
ParentRerender ==
  /\ mounted
  /\ intervals' = ClearInterval(intervals)
  /\ UNCHANGED << parentVars, uiVars, devVars, callVars, recVars, ended,
                  polls, reads, processingIntervalRef, dbVars, histVars >>
  /\ UNCHANGED << upVars, playVars >>

\* The component is torn down (the user navigates away).
Unmount ==
  /\ mounted
  /\ mounted' = FALSE /\ isOpen' = FALSE /\ UNCHANGED opens
  /\ intervals' = ClearInterval(intervals)
  /\ UNCHANGED << uiVars, devVars, callVars, recVars, ended,
                  polls, reads, processingIntervalRef, dbVars, histVars >>
  /\ UNCHANGED << upVars, playVars >>

\* ---- recorder events ----
\* The capture step as it would be did the recorder wait for the uploads in
\* flight before delivering the next timeslice.
captureSecondAwaits(c) ==
  /\ rec[c].state = "recording"
  /\ rec[c].elapsed < MaxT
  /\ rec[c].pending = {}
  /\ LET r == [rec[c] EXCEPT !.elapsed = @ + 1]
     IN rec' = [rec EXCEPT ![c] =
                  IF r.elapsed % TickLen = 0 THEN OnDataAvailable(r) ELSE r]
  /\ UNCHANGED << parentVars, uiVars, devVars, callVars, videoRecorderRef,
                  ended, pollVars, dbVars, histVars >>
  /\ UNCHANGED << upVars, playVars >>

\* One second of capture; every TickLen seconds the timeslice is delivered
\* to ondataavailable.
captureSecond(c) ==
  /\ rec[c].state = "recording"
  /\ rec[c].elapsed < MaxT
  /\ LET r == [rec[c] EXCEPT !.elapsed = @ + 1]
     IN rec' = [rec EXCEPT ![c] =
                  IF r.elapsed % TickLen = 0 THEN OnDataAvailable(r) ELSE r]
  /\ UNCHANGED << parentVars, uiVars, devVars, callVars, videoRecorderRef,
                  ended, pollVars, dbVars, histVars >>
  /\ UNCHANGED << upVars, playVars >>

\* The task queued by mediaRecorder.stop() (or by the track ending) runs:
\* dataavailable with what was gathered since the last delivery, then stop.
stopEvent(c) ==
  /\ rec[c].stopQueued
  /\ LET r0 == [rec[c] EXCEPT !.stopQueued = FALSE]
         r1 == IF r0.elapsed % TickLen # 0 THEN OnDataAvailable(r0) ELSE r0
     IN rec' = [rec EXCEPT ![c] = IF r1.onstop # NoId THEN OnStop(r1) ELSE r1]
  /\ UNCHANGED << parentVars, uiVars, devVars, callVars, videoRecorderRef,
                  ended, pollVars, dbVars, histVars >>
  /\ UNCHANGED << upVars, playVars >>

\* The promise of stop() made by caller who settles.
StopSettled(es, c, who) ==
  [a \in Attempts |->
     IF es[a].pc = "stop" /\ es[a].rec = c /\ who = a
     THEN [es[a] EXCEPT !.pc = "delay"]
     ELSE es[a]]

\* The settling as it would be did the catch of ondataavailable give the
\* recording up on a failed upload.
chunkUploadAborts(c, n, net) ==
  /\ n \in rec[c].pending
  /\ LET path == FileName(rec[c].session, n)
         st   == IF UploadsBytes(n)
                 THEN UploadBytes(store, path, rec[c].calls[n + 1].blob)
                 ELSE store
     IN IF net /\ Stored(st, path)
        THEN /\ rec' = [rec EXCEPT ![c] = [@ EXCEPT !.pending = @ \ {n}]]
             /\ store' = st
             /\ reported' = reported \cup
                  {[session |-> rec[c].session, number |-> n, isFinal |-> FALSE,
                    url |-> path, captured |-> rec[c].calls[n + 1].captured]}
             /\ sessions' = [sessions EXCEPT ![rec[c].session] =
                               [@ EXCEPT !.videoChunkUrl = path]]
        ELSE /\ rec' = [rec EXCEPT ![c] =
                         [@ EXCEPT !.pending = @ \ {n},
                                   !.stopQueued = (@ \/ rec[c].state = "recording"),
                                   !.state = IF @ = "recording" THEN "inactive" ELSE @]]
             /\ UNCHANGED dbVars
  /\ UNCHANGED << parentVars, uiVars, devVars, callVars, videoRecorderRef,
                  ended, pollVars, histVars >>
  /\ UNCHANGED << upVars, playVars >>

\* uploadChunk of a non-final chunk settles: no bytes were uploaded,
\* getDownloadURL resolves only if an object is stored at the path (net: the
\* request itself succeeds).  On success ondataavailable reports the URL.
chunkUploadSettles(c, n, net) ==
  /\ n \in rec[c].pending
  /\ rec' = [rec EXCEPT ![c] = [@ EXCEPT !.pending = @ \ {n}]]
  /\ LET path == FileName(rec[c].session, n)
         st   == IF UploadsBytes(n)
                 THEN UploadBytes(store, path, rec[c].calls[n + 1].blob)
                 ELSE store
     IN IF net /\ Stored(st, path)
        THEN /\ store' = st
             /\ reported' = reported \cup
                  {[session |-> rec[c].session, number |-> n, isFinal |-> FALSE,
                    url |-> path, captured |-> rec[c].calls[n + 1].captured]}
             /\ sessions' = [sessions EXCEPT ![rec[c].session] =
                               [@ EXCEPT !.videoChunkUrl = path]]
        ELSE UNCHANGED dbVars
  /\ UNCHANGED << parentVars, uiVars, devVars, callVars, videoRecorderRef,
                  ended, pollVars, histVars >>
  /\ UNCHANGED << upVars, playVars >>

\* uploadChunk of the final chunk: uploadBytes settles.
finalUploadSettles(c, ok) ==
  /\ rec[c].final = "bytes"
  /\ LET chunk == FinalChunkOf(rec[c])
         path  == FileName(rec[c].session, chunk.number)
     IN IF ok
        THEN /\ store' = IF UploadsBytes(chunk.number)
                         THEN UploadBytes(store, path, chunk.blob) ELSE store
             /\ rec' = [rec EXCEPT ![c] = [@ EXCEPT !.final = "url"]]
             /\ UNCHANGED ended
        ELSE /\ rec' = [rec EXCEPT ![c] = [@ EXCEPT !.final = "failed"]]
             \* catch: resolve([])
             /\ ended' = StopSettled(ended, c, rec[c].finalFor)
             /\ UNCHANGED store
  /\ UNCHANGED << parentVars, uiVars, devVars, callVars, videoRecorderRef,
                  pollVars, sessions, reported, histVars >>
  /\ UNCHANGED << upVars, playVars >>

\* getDownloadURL and the session update settle; on success the URL is
\* reported through onChunkUploaded and stop() resolves with it.
finalUrlSettles(c, ok) ==
  /\ rec[c].final = "url"
  /\ LET chunk == FinalChunkOf(rec[c])
         path  == FileName(rec[c].session, chunk.number)
     IN IF ok /\ Stored(store, path)
        THEN /\ sessions' = [sessions EXCEPT ![rec[c].session] =
                               [@ EXCEPT !.videoUrl = path,
                                         !.videoComplete = TRUE]]
             /\ reported' = reported \cup
                  {[session |-> rec[c].session, number |-> chunk.number,
                    isFinal |-> TRUE, url |-> path,
                    captured |-> chunk.captured]}
             /\ rec' = [rec EXCEPT ![c] = [@ EXCEPT !.final = "done"]]
        ELSE /\ rec' = [rec EXCEPT ![c] = [@ EXCEPT !.final = "failed"]]
             /\ UNCHANGED << sessions, reported >>
  /\ ended' = StopSettled(ended, c, rec[c].finalFor)
  /\ UNCHANGED << parentVars, uiVars, devVars, callVars, videoRecorderRef,
                  pollVars, store, histVars >>
  /\ UNCHANGED << upVars, playVars >>

\* ---- handleCallEnded after stop() and the 1 s delay ----
\* setInterval(checkProcessingStatus, 2000), then the finally block releases
\* the stream.
handleCallEndedResumes(a) ==
  /\ ended[a].pc = "delay"
  /\ ended' = [ended EXCEPT ![a] = [@ EXCEPT !.pc = "done"]]
  /\ intervals' = intervals \cup {a}
  /\ processingIntervalRef' = a
  /\ streams' = StopTracks(streams, streamRef)
  /\ streamRef' = NoId
  /\ rec' = TracksEnded(rec, streamRef)
  /\ UNCHANGED << parentVars, uiVars, permPending, callVars, videoRecorderRef,
                  polls, reads, dbVars, histVars >>
  /\ UNCHANGED << upVars, playVars >>

\* ---- poller ----
\* An interval tick: checkProcessingStatus starts getDoc.
checkProcessingStatus(i) ==
  /\ i \in intervals
  /\ ended[i].session # NoId
  /\ reads[ended[i].session] < MaxReads
  /\ polls' = [polls EXCEPT ![i] = Min(@ + 1, MaxPolls)]
  /\ reads' = [reads EXCEPT ![ended[i].session] = @ + 1]
  /\ UNCHANGED << parentVars, uiVars, devVars, callVars, recVars, ended,
                  intervals, processingIntervalRef, dbVars, histVars >>
  /\ UNCHANGED << upVars, playVars >>

ReadOutcomes == {"found", "absent", "throws"}

\* The estimate as it would advance were it capped at 100 instead of 90.
NextProgressToDone(prev) == Min(prev + ProgressStep, ProgressDone)

\* setProcessingProgress((prev) => Math.min(prev + 5, 90))
NextProgress(prev) == Min(prev + ProgressStep, ProgressCap)

\* The read as it would resume did a read that fails or finds no story stop
\* the poll timer.
checkProcessingStatusReadGivesUp(s, outcome) ==
  /\ reads[s] > 0
  /\ reads' = [reads EXCEPT ![s] = @ - 1]
  /\ IF outcome = "found" /\ sessions[s].updated
     THEN /\ intervals' = IF mounted
                          THEN ClearInterval(ObservedClear(intervals))
                          ELSE ObservedClear(intervals)
          /\ isProcessing' = SetState(isProcessing, FALSE)
          /\ processingProgress' = SetState(processingProgress, ProgressDone)
          /\ isOpen' = FALSE
          /\ observed' = [observed EXCEPT ![s] = TRUE]
     ELSE /\ processingProgress' =
               IF outcome = "found"
               THEN SetState(processingProgress, NextProgress(processingProgress))
               ELSE processingProgress
          /\ intervals' = IF outcome = "found" THEN intervals
                          ELSE ObservedClear(intervals)
          /\ UNCHANGED << isProcessing, isOpen, observed >>
  /\ UNCHANGED << mounted, opens, isCallActive, isMicPermissionGranted,
                  isCameraPermissionGranted, isLoading, currentStoryId,
                  currentSessionId, devVars, callVars, recVars, ended, polls,
                  processingIntervalRef, dbVars, permRequested, wasReady >>
  /\ UNCHANGED << upVars, playVars >>

\* getDoc settles and checkProcessingStatus resumes.
checkProcessingStatusRead(s, outcome) ==
  /\ reads[s] > 0
  /\ reads' = [reads EXCEPT ![s] = @ - 1]
  /\ IF outcome = "found" /\ sessions[s].updated
     THEN \* clearInterval, then onClose(true): the parent renders again
          /\ intervals' = IF mounted
                          THEN ClearInterval(ObservedClear(intervals))
                          ELSE ObservedClear(intervals)
          /\ isProcessing' = SetState(isProcessing, FALSE)
          /\ processingProgress' = SetState(processingProgress, ProgressDone)
          /\ isOpen' = FALSE
          /\ observed' = [observed EXCEPT ![s] = TRUE]
     ELSE /\ processingProgress' =
               IF outcome = "found"
               THEN SetState(processingProgress, NextProgress(processingProgress))
               ELSE processingProgress
          /\ UNCHANGED << intervals, isProcessing, isOpen, observed >>
  /\ UNCHANGED << mounted, opens, isCallActive, isMicPermissionGranted,
                  isCameraPermissionGranted, isLoading, currentStoryId,
                  currentSessionId, devVars, callVars, recVars, ended, polls,
                  processingIntervalRef, dbVars, permRequested, wasReady >>
  /\ UNCHANGED << upVars, playVars >>

\* The external pipeline finishes the story of an ended call.
pipelineUpdates(s) ==
  /\ call[s].stage = "over"
  /\ ~sessions[s].updated
  /\ sessions' = [sessions EXCEPT ![s] = [@ EXCEPT !.updated = TRUE]]
  /\ UNCHANGED << parentVars, uiVars, devVars, callVars, recVars, ended,
                  pollVars, store, reported, histVars >>
  /\ UNCHANGED << upVars, playVars >>

Next ==
  \/ Open(MaxOpens)
  \/ requestPermissionsGranted
  \/ requestPermissionsDenied
  \/ startCall(MaxCalls)
  \/ \E c \in Attempts, ok \in BOOLEAN : startCallFetched(c, ok)
  \/ \E c \in Attempts, startOk \in BOOLEAN : handleCallStarted(c, startOk)
  \/ \E c \in Attempts : handleError(c)
  \/ \E c \in Attempts, throws \in BOOLEAN : callEnded(c, throws)
  \/ \E throws \in BOOLEAN : endCall(throws)
  \/ \E t \in Attempts, throws \in BOOLEAN : handleTimeout(t, throws)
  \/ \E throws \in BOOLEAN : handleBeforeUnload(throws)
  \/ \E confirmEnd \in BOOLEAN, throws \in BOOLEAN : handleClose(confirmEnd, throws)
  \/ ParentRerender
  \/ Unmount
  \/ \E c \in Attempts : captureSecond(c)
  \/ \E c \in Attempts : stopEvent(c)
  \/ \E c \in Attempts, n \in 0..MaxT, net \in BOOLEAN : chunkUploadSettles(c, n, net)
  \/ \E c \in Attempts, ok \in BOOLEAN : finalUploadSettles(c, ok)
  \/ \E c \in Attempts, ok \in BOOLEAN : finalUrlSettles(c, ok)
  \/ \E a \in Attempts : handleCallEndedResumes(a)
  \/ \E i \in Attempts : checkProcessingStatus(i)
  \/ \E s \in Attempts, outcome \in ReadOutcomes : checkProcessingStatusRead(s, outcome)
  \/ \E s \in Attempts : pipelineUpdates(s)

Spec == Init /\ [][Next]_vars

\* A second Start Call click on the instance within one opening of the
\* modal, with calls that end before the first second of capture is over.
NextRetry ==
  \/ Open(MaxRetryOpens)
  \/ requestPermissionsGranted
  \/ requestPermissionsDenied
  \/ startCall(MaxRetryCalls)
  \/ \E c \in Attempts, ok \in BOOLEAN : startCallFetched(c, ok)
  \/ \E c \in Attempts, startOk \in BOOLEAN : handleCallStarted(c, startOk)
  \/ \E c \in Attempts : handleError(c)
  \/ \E c \in Attempts, throws \in BOOLEAN : callEnded(c, throws)
  \/ \E throws \in BOOLEAN : endCall(throws)
  \/ \E t \in Attempts, throws \in BOOLEAN : handleTimeout(t, throws)
  \/ \E throws \in BOOLEAN : handleBeforeUnload(throws)
  \/ \E confirmEnd \in BOOLEAN, throws \in BOOLEAN : handleClose(confirmEnd, throws)
  \/ ParentRerender
  \/ Unmount
  \/ \E c \in Attempts : stopEvent(c)
  \/ \E c \in Attempts, ok \in BOOLEAN : finalUploadSettles(c, ok)
  \/ \E c \in Attempts, ok \in BOOLEAN : finalUrlSettles(c, ok)
  \/ \E a \in Attempts : handleCallEndedResumes(a)
  \/ \E i \in Attempts : checkProcessingStatus(i)
  \/ \E s \in Attempts, outcome \in ReadOutcomes : checkProcessingStatusRead(s, outcome)
  \/ \E s \in Attempts : pipelineUpdates(s)

SpecRetry == Init /\ [][NextRetry]_vars

\* Two Start Call clicks within one opening, with capture of up to
\* MaxRetryT seconds per recorder and the uploads of the chunks, up to the
\* end of handleCallEnded (the poller and the parent's own renders are left
\* out).
NextRecord ==
  \/ Open(MaxRetryOpens)
  \/ requestPermissionsGranted
  \/ requestPermissionsDenied
  \/ startCall(MaxRetryCalls)
  \/ \E c \in Attempts, ok \in BOOLEAN : startCallFetched(c, ok)
  \/ \E c \in Attempts, startOk \in BOOLEAN : handleCallStarted(c, startOk)
  \/ \E c \in Attempts : handleError(c)
  \/ \E c \in Attempts, throws \in BOOLEAN : callEnded(c, throws)
  \/ \E throws \in BOOLEAN : endCall(throws)
  \/ \E t \in Attempts, throws \in BOOLEAN : handleTimeout(t, throws)
  \/ \E confirmEnd \in BOOLEAN, throws \in BOOLEAN : handleClose(confirmEnd, throws)
  \/ \E c \in Attempts : rec[c].elapsed < MaxRetryT /\ captureSecond(c)
  \/ \E c \in Attempts : stopEvent(c)
  \/ \E c \in Attempts, n \in 0..MaxRetryT, net \in BOOLEAN :
       chunkUploadSettles(c, n, net)
  \/ \E c \in Attempts, ok \in BOOLEAN : finalUploadSettles(c, ok)
  \/ \E c \in Attempts, ok \in BOOLEAN : finalUrlSettles(c, ok)
  \/ \E a \in Attempts : handleCallEndedResumes(a)

SpecRecord == Init /\ [][NextRecord]_vars

\* Timers fire, queued events and pending promises settle, the pipeline
\* finishes, and a read that is tried again and again succeeds.
Fairness ==
  /\ WF_vars(\E c \in Attempts : stopEvent(c))
  /\ WF_vars(\E c \in Attempts, ok \in BOOLEAN : finalUploadSettles(c, ok))
  /\ WF_vars(\E c \in Attempts, ok \in BOOLEAN : finalUrlSettles(c, ok))
  /\ WF_vars(\E a \in Attempts : handleCallEndedResumes(a))
  /\ WF_vars(\E i \in Attempts : checkProcessingStatus(i))
  /\ WF_vars(\E s \in Attempts : pipelineUpdates(s))
  /\ SF_vars(\E s \in Attempts : checkProcessingStatusRead(s, "found"))

FairSpec == Spec /\ Fairness

\* ================= properties =================

\* the uploadChunk calls of a recorder, non-final and final
NonFinals(r) == SelectSeq(r.calls, LAMBDA ch : ch.number # FinalNumber)
Finals(r)    == SelectSeq(r.calls, LAMBDA ch : ch.number = FinalNumber)

\* C1: the controller is never Active (isCallActive, set by the call_started
\* handler) unless, since the modal was last opened, requestPermissions was
\* issued and the controller was Ready (both permission flags granted with a
\* stream stored).
C1_ActiveOnlyAfterReady == isCallActive => (permRequested /\ wasReady)

\* C2: once a recorder that captured for T = elapsed seconds has been stopped
\* and its stop event handled, uploadChunk has received exactly T \div TickLen
\* non-final chunks, with strictly increasing numbers, and exactly one final
\* chunk.
C2_ChunkCount ==
  \A c \in Attempts :
    (rec[c].final # "none" /\ ~rec[c].stopQueued) =>
      LET nf == NonFinals(rec[c])
      IN /\ Len(nf) = rec[c].elapsed \div TickLen
         /\ \A i \in 1..(Len(nf) - 1) : nf[i].number < nf[i + 1].number
         /\ Len(Finals(rec[c])) = 1

C4_NoReadAfterObserved ==
  [][\A s \in Attempts : observed[s] => reads'[s] <= reads[s]]_vars

\* the final upload of the recorder stopped by handleCallEnded a has failed
FinalFailed(a) ==
  ended[a].rec # NoId /\ rec[ended[a].rec].final = "failed"

\* C5: when the final upload has failed, the poller of that call is never
\* started, and once handleCallEnded has finished the controller is not
\* awaiting processing.
C5_FinalFailureIsFatal ==
  \A a \in Attempts :
    FinalFailed(a) =>
      /\ a \notin intervals /\ polls[a] = 0
      /\ ended[a].pc = "done" => ~(mounted /\ isProcessing)

\* C6: a transport error reported while the call is active leaves the
\* controller neither active nor processing, and no track of the stream it
\* holds is live when the handler returns.
C6_ErrorReleasesDevices ==
  [][\A c \in Attempts :
       (isCallActive /\ handleError(c)) =>
         /\ ~isCallActive' /\ ~isProcessing'
         /\ ~HeldLive(streams', streamRef)]_vars

\* a step that completes an exit path: teardown, the modal closing, a
\* transport error, the connection timeout, the end of handleCallEnded
ExitStep ==
  \/ mounted /\ ~mounted'
  \/ isOpen /\ ~isOpen'
  \/ \E c \in Attempts : handleError(c)
  \/ \E t \in Attempts, throws \in BOOLEAN : handleTimeout(t, throws)
  \/ \E a \in Attempts : handleCallEndedResumes(a)

\* C7: after every step that completes an exit path no track of any acquired
\* stream is live, and no track is ever stopped more than once.
C7_ReleasedExactlyOnce ==
  [][/\ ExitStep => \A id \in DOMAIN streams' : ~HeldLive(streams', id)
     /\ \A id \in DOMAIN streams' :
          streams'[id].audio <= 1 /\ streams'[id].video <= 1]_vars

\* C8: whenever the controller is not awaiting processing (mounted with
\* isProcessing set), no poll timer is live.
C8_NoTimerOutsideAwaiting == ~(mounted /\ isProcessing) => intervals = {}

\* C9: once handleCallEnded has run for the call of the current session and
\* the processing view is shown, the poller eventually observes updated = true
\* (onClose(true)), unless the component is torn down first.
C9_EventuallyComplete ==
  \A a \in Attempts :
    (mounted /\ isOpen /\ isProcessing /\ ended[a].pc # "none"
       /\ ended[a].session # NoId /\ ended[a].session = currentSessionId)
      ~> (~mounted \/ (ended[a].session # NoId /\ observed[ended[a].session]))

\* the recording from its start through segment k
Cumulative(k) == [i \in 1..k |-> i]

ProperPrefix(s, t) ==
  Len(s) < Len(t) /\ \A i \in 1..Len(s) : s[i] = t[i]

\* C11: the blob of the non-final chunk numbered n holds every segment from
\* the start through the one delivered at tick n (n + 1 segments), each
\* non-final chunk is a proper extension of the one before it, and the blob
\* of the final chunk holds every segment the recorder captured.
C11_ChunksCumulative ==
  \A c \in Attempts :
    LET nf == NonFinals(rec[c])
        fs == Finals(rec[c])
    IN /\ \A i \in 1..Len(nf) : nf[i].blob = Cumulative(nf[i].number + 1)
       /\ \A i \in 1..(Len(nf) - 1) : ProperPrefix(nf[i].blob, nf[i + 1].blob)
       /\ \A i \in 1..Len(fs) : fs[i].blob = Cumulative(Len(rec[c].chunks))

\* a recorder has built two non-final chunks and its final chunk
C11_TwoChunksThenFinal ==
  \E c \in Attempts :
    /\ Len(NonFinals(rec[c])) = 2
    /\ Len(Finals(rec[c])) = 1
    /\ Len(rec[c].chunks) = 2

\* the upload of non-final chunk n of recorder c has failed
FailedUpload(c, n) ==
  /\ n >= 0 /\ n < rec[c].chunkNumber /\ n \notin rec[c].pending
  /\ ~\E u \in reported :
        u.session = rec[c].session /\ u.number = n /\ ~u.isFinal

\* the upload of non-final chunk n of recorder c fails in this step
UploadFails(c, n) ==
  /\ n \in rec[c].pending
  /\ \E net \in BOOLEAN : chunkUploadSettles(c, n, net)
  /\ FailedUpload(c, n)'

\* C12: a step in which a non-final upload fails changes nothing of the
\* controller, of the poller or of the stored data, and of the recorder only
\* the set of uploads in flight: the recorder keeps its state, its segments,
\* its counter, its stop handler and its queued stop event.  A recorder with
\* a failed upload that is still recording can capture on, and its queued
\* stop event can run.
C12_FailureSwallowed ==
  /\ [][\A c \in Attempts, n \in 0..MaxT :
          UploadFails(c, n) =>
            /\ UNCHANGED << parentVars, uiVars, devVars, callVars,
                            videoRecorderRef, ended, pollVars, dbVars >>
            /\ rec' = [rec EXCEPT ![c] = [@ EXCEPT !.pending = @ \ {n}]]]_vars
  /\ [](\A c \in Attempts :
          (\E n \in 0..MaxT : FailedUpload(c, n)) =>
            /\ (rec[c].state = "recording" /\ rec[c].elapsed < MaxT)
                  => ENABLED captureSecond(c)
            /\ rec[c].stopQueued => ENABLED stopEvent(c))

\* both non-final uploads of a recorder have failed, the second chunk was
\* built all the same and the final upload went through
C12_FinalAfterFailures ==
  \E c \in Attempts :
    /\ FailedUpload(c, 0) /\ FailedUpload(c, 1)
    /\ Len(NonFinals(rec[c])) = 2
    /\ rec[c].final = "done"

Underway(t) == call[t].stage \in {"fetch", "starting", "joined"}

\* C14: when the connection timer of an attempt fires before call_started,
\* the controller is left neither connecting nor active, and the call of that
\* attempt is aborted: it is not joined and no longer on its way to be.
C14_TimeoutAborts ==
  [][\A t \in Attempts, throws \in BOOLEAN :
       (call[t].stage \in {"fetch", "starting"} /\ handleTimeout(t, throws))
         => /\ mounted => (~isLoading' /\ ~isCallActive')
            /\ ~Underway(t)']_vars

\* Failed(PermissionDenied): the modal is shown, no request is pending and a
\* permission flag is off
PermissionDenied ==
  /\ mounted /\ isOpen /\ ~isProcessing /\ permPending = 0
  /\ ~isMicPermissionGranted \/ ~isCameraPermissionGranted

\* C15: a denied request leaves both permission flags off; while a flag is
\* off Start Call is disabled; from the denied state the user can close the
\* modal (unless a start made before the denial is still loading), and
\* opening it again issues a new getUserMedia request with both flags reset.
C15_DeniedThenRetry ==
  /\ [][(mounted /\ requestPermissionsDenied)
          => (~isMicPermissionGranted' /\ ~isCameraPermissionGranted')]_vars
  /\ []((~isMicPermissionGranted \/ ~isCameraPermissionGranted)
          => ~ENABLED startCall(MaxCalls))
  /\ []((PermissionDenied /\ ~isLoading)
          => ENABLED (\E confirmEnd \in BOOLEAN, throws \in BOOLEAN :
                        handleClose(confirmEnd, throws)))
  /\ []((mounted /\ ~isOpen /\ opens < MaxOpens) => ENABLED Open(MaxOpens))
  /\ [][Open(MaxOpens)
          => /\ permPending' = permPending + 1
             /\ ~isMicPermissionGranted' /\ ~isCameraPermissionGranted']_vars

\* the modal was opened twice and no request was ever granted: one request
\* was denied, and the request of the other opening is pending
C15_RequestedAgain ==
  /\ mounted /\ isOpen /\ opens = 2
  /\ streams = << >> /\ permPending = 1
  /\ ~isMicPermissionGranted /\ ~isCameraPermissionGranted

\* C16: whenever the modal is shown and no call is active (while permissions
\* are requested, when ready, connecting, awaiting processing or failed), the
\* user can cancel: a close that returns the controller to Idle is offered.
C16_CancelOffered ==
  (mounted /\ isOpen /\ ~isCallActive) =>
    ENABLED (/\ \E confirmEnd \in BOOLEAN, throws \in BOOLEAN :
                  handleClose(confirmEnd, throws)
             /\ ~isOpen' /\ streamRef' = NoId)

\* the connection timer of attempt c fired before call_started
TimedOut(c) == call[c].stage \in {"fetch", "starting"} /\ c \notin timeouts

\* attempt c has left Connecting and Active behind: it timed out, its start
\* failed, or handleCallEnded has run for it
LeftBehind(c) ==
  TimedOut(c) \/ call[c].stage = "failed" \/ ended[c].pc # "none"

\* C17: once an attempt has timed out, failed or ended, no step other than a
\* new Start Call click or a new opening of the modal makes the controller
\* active or connecting again.
C17_NoWayBack ==
  [][\A c \in Attempts :
       (LeftBehind(c) /\ attempts' = attempts /\ opens' = opens)
         => /\ isCallActive' => isCallActive
            /\ isLoading' => isLoading]_vars

\* the recorders created for session s
RecordersOf(s) == {c \in Attempts : rec[c].state # "none" /\ rec[c].session = s}

\* C18: over all the recorders created for a session, at most one final
\* chunk is handed to uploadChunk, the non-final chunks of each recorder bear
\* strictly increasing numbers, and no number is borne by chunks of two
\* recorders.
C18_OneFinalPerSession ==
  \A s \in Attempts :
    /\ \A c, d \in RecordersOf(s) :
         c # d =>
           /\ Len(Finals(rec[c])) + Len(Finals(rec[d])) <= 1
           /\ \A i \in 1..Len(NonFinals(rec[c])), j \in 1..Len(NonFinals(rec[d])) :
                NonFinals(rec[c])[i].number # NonFinals(rec[d])[j].number
    /\ \A c \in RecordersOf(s) :
         /\ Len(Finals(rec[c])) <= 1
         /\ \A i \in 1..(Len(NonFinals(rec[c])) - 1) :
              NonFinals(rec[c])[i].number < NonFinals(rec[c])[i + 1].number

\* ================= the upload client on its own =================

callVarsAll == << parentVars, uiVars, devVars, callVars, recVars, ended,
                 pollVars, sessions, reported, histVars >>

\* the blobs handed to uploadChunk
UploadBlobs == {Cumulative(k) : k \in 1..MaxBlob}

\* VideoRecorder.uploadChunk of src/lib/recording.ts, from call to return:
\* bytes are uploaded for the final chunk only, then the download URL of the
\* path is asked for (net: the requests get through).
uploadChunk(number, blob, net) ==
  LET k    == << "recording.ts", number >>
      path == FileName(UploadSession, number)
      st   == IF UploadsBytes(number) /\ net
              THEN UploadBytes(store, path, blob) ELSE store
      ok   == net /\ Stored(st, path)
  IN /\ uploads[k] < MaxUploads
     /\ store' = st
     /\ uploads' = [uploads EXCEPT ![k] = @ + 1]
     /\ returned' = [returned EXCEPT ![k] =
                       [net |-> net, ok |-> ok, blob |-> blob,
                        url |-> IF ok THEN path ELSE NoUrl]]
     /\ UNCHANGED << uuidStore, uuids, callVarsAll, playVars >>

\* VideoRecorder.uploadChunk of src/unnamed/part_007: the file name carries a
\* new uuid on every call, and bytes are uploaded for every chunk.
uploadChunkUuid(number, blob, net) ==
  LET k    == << "part_007", number >>
      path == UuidFileName(UploadSession, number, uuids + 1)
      st   == IF net THEN UploadBytes(uuidStore, path, blob) ELSE uuidStore
      ok   == net /\ Stored(st, path)
  IN /\ uploads[k] < MaxUploads
     /\ uuids' = uuids + 1
     /\ uuidStore' = st
     /\ uploads' = [uploads EXCEPT ![k] = @ + 1]
     /\ returned' = [returned EXCEPT ![k] =
                       [net |-> net, ok |-> ok, blob |-> blob,
                        url |-> IF ok THEN path ELSE UuidFileName(NoId, 0, 0)]]
     /\ UNCHANGED << store, callVarsAll, playVars >>

NextUpload ==
  \/ \E number \in UploadNumbers, blob \in UploadBlobs, net \in BOOLEAN :
       uploadChunk(number, blob, net)
  \/ \E number \in UploadNumbers, blob \in UploadBlobs, net \in BOOLEAN :
       uploadChunkUuid(number, blob, net)

SpecUpload == Init /\ [][NextUpload]_vars

\* the objects stored for the logical chunk k
StoredFor(k) ==
  IF k[1] = "recording.ts"
  THEN {o \in store : o.path = FileName(UploadSession, k[2])}
  ELSE {o \in uuidStore :
          o.path.session = UploadSession /\ o.path.number = k[2]}

\* C19: once a chunk has been uploaded, the last time with the requests
\* getting through, and however often before, the call has returned the URL
\* of a stored object that holds the blob uploaded last, and exactly one
\* object is stored for the chunk.
C19_UploadIdempotent ==
  \A k \in UploadKeys :
    (uploads[k] > 0 /\ returned[k].net) =>
      /\ returned[k].ok
      /\ \E o \in StoredFor(k) :
           o.path = returned[k].url /\ o.blob = returned[k].blob
      /\ Cardinality(StoredFor(k)) = 1

\* ================= playback of one session (StoryView) =================
\* Times are in units of 50 ms.  The video and the audio element run on
\* clocks of their own; the video reports its progress in timeupdate events.

otherVars == << callVarsAll, store, upVars, sessVars >>

Abs(x) == IF x < 0 THEN -x ELSE x

\* element.currentTime = t: the element seeks within its resource
SeekTo(t, duration) == Min(t, duration)

\* the lengths of the audio recording: as long as the video, or shorter
AudioDurations == {MaxTime \div 2, MaxTime}

\* fetchStory resolves and the session is rendered, with its video and,
\* where the session has a recording_url, the hidden audio element.
fetchStoryLoaded(hasAudio, duration) ==
  /\ ~loaded
  /\ loaded' = TRUE
  /\ video' = [NoVideo EXCEPT !.duration = MaxTime, !.readyState = 1]
  /\ audio' = [NoAudio EXCEPT !.exists = hasAudio,
                              !.duration = IF hasAudio THEN duration ELSE 0]
  /\ UNCHANGED << audioMuted, canplayListeners, reseeked, otherVars >>

\* audio.currentTime = video.currentTime; audio.play() (plays: the promise
\* of play() is fulfilled)
SyncAndPlay(a, v, plays) ==
  [a EXCEPT !.currentTime = SeekTo(v.currentTime, a.duration),
            !.paused = IF plays THEN FALSE ELSE @]

\* The handler as it would be did it not test that the session has an
\* audio element.
handleVideoPlayUnguarded(plays) ==
  /\ loaded /\ video.paused
  /\ LET v == [video EXCEPT !.paused = FALSE,
                            !.currentTime = IF @ = video.duration THEN 0 ELSE @]
     IN /\ video' = v
        /\ IF ~audioMuted
           THEN IF v.readyState >= HaveCurrentData
                THEN /\ audio' = SyncAndPlay(audio, v, plays)
                     /\ UNCHANGED canplayListeners
                ELSE /\ canplayListeners' = Min(canplayListeners + 1, 2)
                     /\ UNCHANGED audio
           ELSE UNCHANGED << audio, canplayListeners >>
  /\ UNCHANGED << loaded, audioMuted, reseeked, otherVars >>

\* The user starts the video: handleVideoPlay.  Playing a video that has
\* ended starts it over.
handleVideoPlay(plays) ==
  /\ loaded /\ video.paused
  /\ LET v == [video EXCEPT !.paused = FALSE,
                            !.currentTime = IF @ = video.duration THEN 0 ELSE @]
     IN /\ video' = v
        /\ IF audio.exists /\ ~audioMuted
           THEN IF v.readyState >= HaveCurrentData
                THEN /\ audio' = SyncAndPlay(audio, v, plays)
                     /\ UNCHANGED canplayListeners
                ELSE /\ canplayListeners' = Min(canplayListeners + 1, 2)
                     /\ UNCHANGED audio
           ELSE UNCHANGED << audio, canplayListeners >>
  /\ UNCHANGED << loaded, audioMuted, reseeked, otherVars >>

\* The video has data to play: the canplay listeners added by
\* handleVideoPlay run, once each.
canplay(plays) ==
  /\ loaded /\ video.readyState < HaveCurrentData
  /\ video' = [video EXCEPT !.readyState = 4]
  /\ audio' = IF canplayListeners > 0
              THEN SyncAndPlay(audio, video, plays) ELSE audio
  /\ canplayListeners' = 0
  /\ UNCHANGED << loaded, audioMuted, reseeked, otherVars >>

\* The handler as it would be did it leave a muted audio alone.
handleVideoPauseUnlessMuted ==
  /\ loaded /\ ~video.paused
  /\ video' = [video EXCEPT !.paused = TRUE]
  /\ audio' = IF audio.exists /\ ~audioMuted
              THEN [audio EXCEPT !.paused = TRUE] ELSE audio
  /\ UNCHANGED << loaded, audioMuted, canplayListeners, reseeked, otherVars >>

\* The user pauses the video: handleVideoPause.
handleVideoPause ==
  /\ loaded /\ ~video.paused
  /\ video' = [video EXCEPT !.paused = TRUE]
  /\ audio' = IF audio.exists THEN [audio EXCEPT !.paused = TRUE] ELSE audio
  /\ UNCHANGED << loaded, audioMuted, canplayListeners, reseeked, otherVars >>

\* The handler as it would be without Math.abs.
handleVideoTimeUpdateSigned(muted, v, a) ==
  IF a.exists /\ ~muted /\ a.currentTime - v.currentTime > SyncThreshold
  THEN [a EXCEPT !.currentTime = SeekTo(v.currentTime, a.duration)]
  ELSE a

\* handleVideoTimeUpdate: the audio element it leaves
handleVideoTimeUpdate(muted, v, a) ==
  IF a.exists /\ ~muted /\ Abs(a.currentTime - v.currentTime) > SyncThreshold
  THEN [a EXCEPT !.currentTime = SeekTo(v.currentTime, a.duration)]
  ELSE a

\* The playing video has advanced by d and fires timeupdate.
timeupdate(d) ==
  /\ loaded /\ ~video.paused /\ video.readyState >= HaveCurrentData
  /\ video.currentTime < video.duration
  /\ video' = [video EXCEPT !.currentTime = Min(@ + d, video.duration)]
  /\ audio' = handleVideoTimeUpdate(audioMuted, video', audio)
  /\ reseeked' = (audio' # audio)
  /\ UNCHANGED << loaded, audioMuted, canplayListeners, otherVars >>

\* The user moves the video to time t with its controls: timeupdate fires.
seeked(t) ==
  /\ loaded /\ t # video.currentTime
  /\ video' = [video EXCEPT !.currentTime = t]
  /\ audio' = handleVideoTimeUpdate(audioMuted, video', audio)
  /\ reseeked' = (audio' # audio)
  /\ UNCHANGED << loaded, audioMuted, canplayListeners, otherVars >>

\* The playing audio has advanced by e.
audioProgress(e) ==
  /\ audio.exists /\ ~audio.paused /\ audio.currentTime < audio.duration
  /\ audio' = [audio EXCEPT !.currentTime = Min(@ + e, audio.duration)]
  /\ UNCHANGED << loaded, video, audioMuted, canplayListeners, reseeked,
                  otherVars >>

\* The video has reached its end: it is paused (handleVideoPause) and ended
\* fires (handleVideoEnded).
handleVideoEnded ==
  /\ loaded /\ ~video.paused /\ video.currentTime = video.duration
  /\ video' = [video EXCEPT !.paused = TRUE]
  /\ audio' = IF audio.exists
              THEN [audio EXCEPT !.paused = TRUE, !.currentTime = 0] ELSE audio
  /\ UNCHANGED << loaded, audioMuted, canplayListeners, reseeked, otherVars >>

\* The button as it would be did it switch the sound of the video itself.
toggleAudioOfVideo(plays) ==
  /\ loaded /\ audio.exists
  /\ audioMuted' = ~audioMuted
  /\ video' = [video EXCEPT !.muted = ~audioMuted]
  /\ UNCHANGED << loaded, audio, canplayListeners, reseeked, otherVars >>

\* The audio toggle button (rendered for a session with a recording_url).
toggleAudio(plays) ==
  /\ loaded /\ audio.exists
  /\ audioMuted' = ~audioMuted
  /\ audio' = IF ~audioMuted
              THEN [audio EXCEPT !.paused = TRUE]
              ELSE IF ~video.paused THEN SyncAndPlay(audio, video, plays)
                   ELSE audio
  /\ UNCHANGED << loaded, video, canplayListeners, reseeked, otherVars >>

NextPlayback ==
  \/ \E hasAudio \in BOOLEAN, duration \in AudioDurations :
       fetchStoryLoaded(hasAudio, duration)
  \/ \E plays \in BOOLEAN : handleVideoPlay(plays)
  \/ \E plays \in BOOLEAN : canplay(plays)
  \/ handleVideoPause
  \/ \E d \in 1..MaxStep : timeupdate(d)
  \/ \E t \in 0..MaxTime : seeked(t)
  \/ \E e \in 1..MaxStep : audioProgress(e)
  \/ handleVideoEnded
  \/ \E plays \in BOOLEAN : toggleAudio(plays)

SpecPlayback == Init /\ [][NextPlayback]_vars

\* a step in which the video fires timeupdate
TimeUpdateStep ==
  \/ \E d \in 1..MaxStep : timeupdate(d)
  \/ \E t \in 0..MaxTime : seeked(t)

\* the drift the handler finds, and the drift it leaves
DriftBefore == Abs(audio.currentTime - video'.currentTime)
DriftAfter  == Abs(audio'.currentTime - video'.currentTime)

\* The handler has corrected the drift: where it found more than the
\* threshold, the audio was sent to the video's time (the element seeks
\* within its own length), and where the audio is long enough to hold that
\* time the drift left is within the threshold.
Corrected ==
  /\ DriftBefore > SyncThreshold
       => audio'.currentTime = SeekTo(video'.currentTime, audio.duration)
  /\ video'.currentTime <= audio.duration => DriftAfter <= SyncThreshold

\* C20 as stated: every timeupdate of the video of a session that has an
\* audio element corrects the drift.
C20_DriftCorrected ==
  [][(TimeUpdateStep /\ audio.exists) => Corrected]_vars

\* C20 as amended: every timeupdate of the video corrects the drift while
\* the audio is not muted.
C20_DriftCorrectedUnlessMuted ==
  [][(TimeUpdateStep /\ audio.exists /\ ~audioMuted) => Corrected]_vars

\* the audio is not muted and the last timeupdate has moved it to the
\* video's time
C20_Reseeked ==
  /\ reseeked /\ audio.exists /\ ~audioMuted
  /\ video.currentTime > SyncThreshold
  /\ audio.currentTime = video.currentTime

\* a step in which the video fires play
PlayStep == \E plays \in BOOLEAN : handleVideoPlay(plays)

\* C21: a play of the video of a session that has an audio element, the
\* audio not muted, sends the audio to the video's time and starts it (at
\* once, or on canplay where the video has no data yet; the promise of
\* audio.play() may be rejected by the browser); a play while the audio is
\* muted leaves the audio paused, at the position it had.
C21_PlayStartsUnlessMuted ==
  [][\A plays \in BOOLEAN :
       (handleVideoPlay(plays) /\ audio.exists) =>
         IF ~audioMuted
         THEN \/ /\ audio'.currentTime = SeekTo(video'.currentTime, audio.duration)
                 /\ plays => ~audio'.paused
              \/ /\ video.readyState < HaveCurrentData
                 /\ canplayListeners' > 0
         ELSE /\ audio'.paused
              /\ audio'.currentTime = audio.currentTime]_vars

\* C22: the step in which the video is paused leaves the audio element
\* paused, muted or not, and the step in which the video has ended leaves it
\* paused at time 0.
C22_PauseAndEndedPauseAudio ==
  [][/\ (handleVideoPause /\ audio.exists) => audio'.paused
     /\ (handleVideoEnded /\ audio.exists)
          => (audio'.paused /\ audio'.currentTime = 0)]_vars

\* the video has ended and the audio was rewound: the last timeupdate took
\* the video to its end and the audio with it (a reseek to the end of an
\* audio as long as the video), and the audio is now paused at 0, where only
\* handleVideoEnded can have put it
C22_EndedRewound ==
  /\ audio.exists /\ reseeked
  /\ audio.duration = MaxTime
  /\ video.paused /\ video.currentTime = video.duration
  /\ audio.paused /\ audio.currentTime = 0

\* C23: a step of the audio toggle leaves the video as it is (paused or
\* playing, its time, its muted attribute) and changes of the audio element
\* only whether it plays and, where it is resumed, its position: muting
\* pauses it; unmuting while the video plays sends it to the video's time
\* and starts it (unless the browser rejects play()); unmuting while the
\* video is paused leaves it as it is.
C23_ToggleOnlyAudio ==
  [][\A plays \in BOOLEAN :
       toggleAudio(plays) =>
         /\ video' = video
         /\ audio'.exists = audio.exists /\ audio'.duration = audio.duration
         /\ audioMuted' = ~audioMuted
         /\ IF audioMuted'
            THEN audio'.paused /\ audio'.currentTime = audio.currentTime
            ELSE IF video.paused
                 THEN audio' = audio
                 ELSE /\ audio'.currentTime = SeekTo(video.currentTime, audio.duration)
                      /\ plays => ~audio'.paused]_vars

\* the audio was muted while the video was playing: the video plays on at
\* its time, still muted itself, and the audio is paused where it was
C23_MutedWhilePlaying ==
  /\ audio.exists /\ audioMuted
  /\ ~video.paused /\ video.muted /\ video.currentTime > 0
  /\ audio.paused /\ audio.currentTime > 0

\* C24: whenever handleCallEnded is awaiting the promise of stop() on a
\* started recorder, the promise eventually settles and handleCallEnded goes
\* on.
C24_StopSettles ==
  \A a \in Attempts :
    (ended[a].pc = "stop") ~> (ended[a].pc # "stop")

\* the promise of stop() that handleCallEnded a awaits is resolved in this
\* step
StopResolves(a) == ended[a].pc = "stop" /\ ended'[a].pc = "delay"

\* C25: when the promise of stop() on a started recorder is resolved, the
\* final chunk has been handed to uploadChunk once, with every segment
\* captured, its upload has finished (the object is stored), videoUrl and
\* videoComplete are written to the session record and the final URL has
\* been reported through onChunkUploaded.
C25_ResolvedAfterFinalUpload ==
  [][\A a \in Attempts :
       StopResolves(a) =>
         LET r    == rec'[ended[a].rec]
             path == FileName(r.session, FinalNumber)
         IN /\ Len(Finals(r)) = 1
            /\ Finals(r)[1].blob = Cumulative(Len(r.chunks))
            /\ r.final = "done"
            /\ \E o \in store' : o.path = path /\ o.blob = Finals(r)[1].blob
            /\ sessions'[r.session].videoUrl = path
            /\ sessions'[r.session].videoComplete
            /\ \E u \in reported' :
                 u.session = r.session /\ u.isFinal /\ u.url = path]_vars

\* a step in which the poll timer i ticks and issues a read
PollRead(i) == checkProcessingStatus(i)

\* handleCallEnded i stopped a recorder that had been started
StoppedStarted(i) ==
  ended[i].rec # NoId /\ rec[ended[i].rec].state # "unstarted"

\* C26: a poll read is issued only by the timer of a call that is over and
\* whose handleCallEnded has run past the stop of the recorder, and, where
\* it stopped a started recorder, only after the final upload of that
\* recorder has completed.
C26_PollAfterFinalUpload ==
  [][\A i \in Attempts :
       PollRead(i) =>
         /\ call[i].stage = "over"
         /\ ended[i].pc = "done"
         /\ StoppedStarted(i) => rec[ended[i].rec].final = "done"]_vars

\* C27: a step that handles call_started and leaves the controller active
\* leaves videoRecorderRef on a recorder that is recording, created for the
\* current session on the stream the controller holds.
C27_ActiveHasRecorder ==
  [][\A c \in Attempts, startOk \in BOOLEAN :
       (handleCallStarted(c, startOk) /\ isCallActive') =>
         /\ videoRecorderRef' # NoId
         /\ rec'[videoRecorderRef'].state = "recording"
         /\ rec'[videoRecorderRef'].session = currentSessionId'
         /\ streamRef' # NoId
         /\ rec'[videoRecorderRef'].stream = streamRef']_vars

\* C28: at most one poll timer is live, and a live timer is the one whose
\* handle processingIntervalRef holds.
C28_OneLiveInterval ==
  /\ Cardinality(intervals) <= 1
  /\ \A i \in intervals : i = processingIntervalRef

\* call_started of attempt c is handled in this step
CallStartedHandled(c) ==
  Listening /\ \E startOk \in BOOLEAN : handleCallStarted(c, startOk)

\* C29: the step that handles call_started of an attempt leaves the
\* connection timer of that attempt cancelled; a timer is only ever created
\* by the Start Call click of its own attempt, so it cannot come back; and
\* no connection timer is pending while the controller is active, so that
\* handleTimeout never runs on an active call.
C29_StartCancelsTimeout ==
  /\ [][\A c \in Attempts : CallStartedHandled(c) => c \notin timeouts']_vars
  /\ [][\A t \in timeouts' \ timeouts : attempts = t - 1 /\ attempts' = t]_vars
  /\ []((mounted /\ isCallActive) => timeouts = {})

\* an active call that was recorded to the last second of the model with no
\* connection timer pending
C29_ActiveNoTimer ==
  \E c \in Attempts :
    /\ mounted /\ isCallActive /\ call[c].stage = "joined"
    /\ rec[c].state = "recording" /\ rec[c].elapsed = MaxT
    /\ timeouts = {} /\ timeoutRef = c

\* the connection timer of attempt t fires in this step
TimeoutFires(t) == \E throws \in BOOLEAN : handleTimeout(t, throws)

\* Connecting: the modal is shown, loading, for an attempt that has not
\* heard call_started
Connecting(t) ==
  /\ mounted /\ isOpen /\ isLoading /\ ~isCallActive
  /\ call[t].stage \in {"fetch", "starting"}

\* C30: a connection timer fires only while the controller is connecting
\* for its attempt; the step in which startCall fails for an attempt, or in
\* which the transport reports an error for it, leaves the timer of that
\* attempt cancelled.
C30_TimeoutOnlyWhileConnecting ==
  [][/\ \A t \in Attempts : TimeoutFires(t) => Connecting(t)
     /\ \A c \in Attempts : startCallFetched(c, FALSE) => c \notin timeouts'
     /\ \A c \in Attempts : handleError(c) => c \notin timeouts']_vars

\* ================= the recorder of part_007 while it captures =============

\* uploadChunk of src/unnamed/part_007 for a non-final chunk settles: the
\* bytes are uploaded under a name with a new uuid and the download URL is
\* returned (net: the requests get through).  On success ondataavailable
\* calls onChunkUploaded(url, false), which writes videoChunkUrl.
chunkUploadSettlesUuid(c, n, net) ==
  /\ n \in rec[c].pending
  /\ rec' = [rec EXCEPT ![c] = [@ EXCEPT !.pending = @ \ {n}]]
  /\ uuids' = uuids + 1
  /\ LET path == UuidFileName(rec[c].session, n, uuids + 1)
     IN IF net
        THEN /\ uuidStore' = UploadBytes(uuidStore, path, rec[c].calls[n + 1].blob)
             /\ reported' = reported \cup
                  {[session |-> rec[c].session, number |-> n, isFinal |-> FALSE,
                    url |-> path, captured |-> rec[c].calls[n + 1].captured]}
             /\ sessions' = [sessions EXCEPT ![rec[c].session] =
                               [@ EXCEPT !.videoChunkUrl = path]]
        ELSE UNCHANGED << uuidStore, sessions, reported >>
  /\ UNCHANGED << parentVars, uiVars, devVars, callVars, videoRecorderRef,
                  ended, pollVars, store, histVars, uploads, returned,
                  playVars >>

\* One call from the opening of the modal to its end, recorded by the
\* recorder of part_007: capture, the uploads of the non-final chunks
\* settling in any order, and the stop of the recorder with its flush.
NextChunkRefs ==
  \/ Open(MaxRetryOpens)
  \/ requestPermissionsGranted
  \/ requestPermissionsDenied
  \/ startCall(MaxCalls)
  \/ \E c \in Attempts, ok \in BOOLEAN : startCallFetched(c, ok)
  \/ \E c \in Attempts, startOk \in BOOLEAN : handleCallStarted(c, startOk)
  \/ \E c \in Attempts, throws \in BOOLEAN : callEnded(c, throws)
  \/ \E c \in Attempts : captureSecond(c)
  \/ \E c \in Attempts : stopEvent(c)
  \/ \E c \in Attempts, n \in 0..MaxT, net \in BOOLEAN :
       chunkUploadSettlesUuid(c, n, net)

SpecChunkRefs == Init /\ [][NextChunkRefs]_vars

\* the non-final chunks of session s whose upload succeeded
Succeeded(s) == {u \in reported : u.session = s /\ ~u.isFinal}

\* C31: when no non-final upload of a recorder is in flight and at least one
\* has succeeded, videoChunkUrl of the session is the URL reported for the
\* highest-numbered chunk among those that succeeded.
C31_ChunkRefIsNewest ==
  \A c \in Attempts :
    (rec[c].state # "none" /\ rec[c].pending = {}
       /\ Succeeded(rec[c].session) # {}) =>
      \E u \in Succeeded(rec[c].session) :
        /\ \A w \in Succeeded(rec[c].session) : w.number <= u.number
        /\ sessions[rec[c].session].videoChunkUrl = u.url

\* a poll read of session s returns in this step with updated = true
PollObserves(s) ==
  sessions[s].updated /\ checkProcessingStatusRead(s, "found")

\* a poll read of session s returns in this step with updated = false
PollUnsuccessful(s) ==
  ~sessions[s].updated /\ checkProcessingStatusRead(s, "found")

\* handleCallEnded starts in this step
CallEndHandled == \E a \in Attempts : ended[a].pc = "none" /\ ended'[a].pc # "none"

\* C32: the progress estimate is 0, 5, ..., 90 or 100; it is 0 after the
\* step that handles the end of a call; a poll that finds updated = false
\* advances it by 5, up to 90; it becomes 100 only in a poll that observes
\* updated = true; and until then it never decreases except where it is
\* reset to 0 by the end of a call or by the opening of the modal.
C32_ProgressBoundedMonotone ==
  /\ [](processingProgress \in
          {k * ProgressStep : k \in 0..(ProgressCap \div ProgressStep)}
            \cup {ProgressDone})
  /\ [][(mounted /\ CallEndHandled) => processingProgress' = 0]_vars
  /\ [][\A s \in Attempts :
          (mounted /\ PollUnsuccessful(s) /\ processingProgress < ProgressDone)
            => processingProgress' = Min(processingProgress + ProgressStep,
                                         ProgressCap)]_vars
  /\ [][(processingProgress' = ProgressDone /\ processingProgress # ProgressDone)
          => \E s \in Attempts : PollObserves(s)]_vars
  /\ [][(processingProgress < ProgressDone
            /\ processingProgress' < processingProgress)
          => (processingProgress' = 0
                /\ (CallEndHandled \/ opens' = opens + 1))]_vars

\* the estimate has reached its cap while the controller is still awaiting
\* a session whose flag no poll has observed
C32_ProgressAtCap ==
  /\ mounted /\ isProcessing /\ processingProgress = ProgressCap
  /\ \E i \in intervals : ~observed[ended[i].session]

\* attempt c fails in this step and the handler raises toast.error: the catch
\* block of startCall, or handleError for a call that was starting
StartFails(c) ==
  \/ startCallFetched(c, FALSE)
  \/ call[c].stage = "starting" /\ handleError(c)

\* C33: a call attempt that fails raises one toast.error: the step in which
\* the start of an attempt fails is not taken by an attempt whose connection
\* timer has already fired and raised "Call setup timed out" (with one Start
\* Call click, nothing else removes the timer of a pending attempt).
C33_OneErrorPerAttempt ==
  [][\A c \in Attempts : StartFails(c) => ~TimedOut(c)]_vars

\* C34: getUserMedia is called only in the step that opens the modal: a step
\* that adds a pending permission request takes isOpen from false to true,
\* and no other step (call_started, call_ended, error, timeout, poll, close)
\* adds one.
C34_RequestOnlyOnOpen ==
  [][permPending' > permPending
       => (~isOpen /\ isOpen' /\ opens' = opens + 1
             /\ permPending' = permPending + 1)]_vars

\* the call is active on the one stream that the one opening acquired
C34_ActiveOnOneRequest ==
  /\ isCallActive /\ opens = 1 /\ permPending = 0
  /\ Len(streams) = 1 /\ streamRef = 1
  /\ \E c \in Attempts : call[c].stage = "joined" /\ rec[c].elapsed > 0

\* C35: whenever the mute flag of the session is set, its audio element is
\* not playing.
C35_MutedAudioPaused ==
  (loaded /\ audio.exists /\ audioMuted) => audio.paused

\* the acquired streams that still have a live track
LiveStreams ==
  {i \in 1..Len(streams) :
     TrackLive(streams[i].audio) \/ TrackLive(streams[i].video)}

\* C36: at most one acquired stream has live tracks, and it is the one the
\* controller holds: when requestPermissions stores a new stream, the tracks
\* of the stream held before have been stopped.
C36_OneLiveStream ==
  /\ [](LiveStreams \subseteq {streamRef})
  /\ [][Len(streams') > Len(streams) => ~HeldLive(streams, streamRef)]_vars

\* a poll read of session s fails in this step: getDoc throws, or the story
\* document does not exist
FailedRead(s) ==
  \/ checkProcessingStatusRead(s, "absent")
  \/ checkProcessingStatusRead(s, "throws")

\* C37: a poll read that throws or finds no story document leaves the poll
\* timers, the processing view, the progress estimate and the open modal
\* (onClose is not called) as they are.
C37_FailedReadKeepsPoller ==
  [][\A s \in Attempts :
       FailedRead(s) =>
         UNCHANGED << intervals, processingIntervalRef, isProcessing,
                      processingProgress, isOpen, observed >>]_vars

\* two polls of a session have settled and none found its story: the poller
\* is still running in the processing view with the estimate at 0
C37_StillPollingAfterFailedReads ==
  /\ mounted /\ isOpen /\ isProcessing /\ processingProgress = 0
  /\ \E i \in intervals :
       /\ polls[i] = MaxPolls /\ reads[ended[i].session] = 0
       /\ ~sessions[ended[i].session].updated

\* a step in which the video of the session fires play, canplay, pause,
\* timeupdate or ended
VideoEventStep ==
  \/ PlayStep
  \/ \E plays \in BOOLEAN : canplay(plays)
  \/ handleVideoPause
  \/ TimeUpdateStep
  \/ handleVideoEnded

\* C39: for a session without an audio element the events of the video
\* change nothing on the audio side: the (absent) audio element, the mute
\* flag and the canplay listeners stay as they are, and each event is
\* handled (the video takes its step).
C39_InertWithoutAudio ==
  [][(loaded /\ ~audio.exists /\ VideoEventStep)
       => (/\ audio' = audio
           /\ audioMuted' = audioMuted
           /\ canplayListeners' = canplayListeners
           /\ video' # video)]_vars

\* the video of a session without an audio element is playing and has
\* reached its end
C39_PlayingWithoutAudio ==
  /\ loaded /\ audio = NoAudio /\ canplayListeners = 0
  /\ video.readyState >= HaveCurrentData
  /\ ~video.paused /\ video.currentTime = video.duration

\* ---- the synchronizers of the sessions of one story page ----
\* StoryView keeps the elements and the mute flags by session id; each
\* handler is called with the id of the session whose video fired the event.

\* the story is rendered; hasAudio[s]: session s has a recording_url
renderMediaSessions(hasAudio) ==
  /\ \A s \in SessionIds : videoRefs[s] = NoVideo
  /\ videoRefs' = [s \in SessionIds |->
                     [NoVideo EXCEPT !.duration = MaxShownTime, !.readyState = 1]]
  /\ audioRefs' = [s \in SessionIds |->
                     [NoAudio EXCEPT !.exists = hasAudio[s],
                                     !.duration = IF hasAudio[s]
                                                  THEN MaxShownTime ELSE 0]]
  /\ UNCHANGED << audioMutedOf, canplayListenersOf >>
  /\ UNCHANGED << loaded, video, audio, audioMuted, canplayListeners, reseeked,
                  callVarsAll, store, upVars >>

\* the video of the session is rendered
Shown(sessionId) == videoRefs[sessionId].readyState > 0

\* handleVideoPlay(sessionId)
handleVideoPlayOf(sessionId, plays) ==
  /\ Shown(sessionId) /\ videoRefs[sessionId].paused
  /\ LET v == [videoRefs[sessionId] EXCEPT
                 !.paused = FALSE,
                 !.currentTime = IF @ = videoRefs[sessionId].duration
                                 THEN 0 ELSE @]
         a == audioRefs[sessionId]
     IN /\ videoRefs' = [videoRefs EXCEPT ![sessionId] = v]
        /\ IF a.exists /\ ~audioMutedOf[sessionId]
           THEN IF v.readyState >= HaveCurrentData
                THEN /\ audioRefs' = [audioRefs EXCEPT ![sessionId] =
                                        SyncAndPlay(a, v, plays)]
                     /\ UNCHANGED canplayListenersOf
                ELSE /\ canplayListenersOf' =
                          [canplayListenersOf EXCEPT ![sessionId] = Min(@ + 1, 2)]
                     /\ UNCHANGED audioRefs
           ELSE UNCHANGED << audioRefs, canplayListenersOf >>
  /\ UNCHANGED audioMutedOf
  /\ UNCHANGED << loaded, video, audio, audioMuted, canplayListeners, reseeked,
                  callVarsAll, store, upVars >>

\* canplay of the video of the session: its once-listeners run
canplayOf(sessionId, plays) ==
  /\ Shown(sessionId) /\ videoRefs[sessionId].readyState < HaveCurrentData
  /\ videoRefs' = [videoRefs EXCEPT ![sessionId] = [@ EXCEPT !.readyState = 4]]
  /\ audioRefs' = IF canplayListenersOf[sessionId] > 0
                  THEN [audioRefs EXCEPT ![sessionId] =
                          SyncAndPlay(@, videoRefs[sessionId], plays)]
                  ELSE audioRefs
  /\ canplayListenersOf' = [canplayListenersOf EXCEPT ![sessionId] = 0]
  /\ UNCHANGED audioMutedOf
  /\ UNCHANGED << loaded, video, audio, audioMuted, canplayListeners, reseeked,
                  callVarsAll, store, upVars >>

\* handleVideoPause(sessionId)
handleVideoPauseOf(sessionId) ==
  /\ Shown(sessionId) /\ ~videoRefs[sessionId].paused
  /\ videoRefs' = [videoRefs EXCEPT ![sessionId] = [@ EXCEPT !.paused = TRUE]]
  /\ audioRefs' = IF audioRefs[sessionId].exists
                  THEN [audioRefs EXCEPT ![sessionId] = [@ EXCEPT !.paused = TRUE]]
                  ELSE audioRefs
  /\ UNCHANGED << audioMutedOf, canplayListenersOf >>
  /\ UNCHANGED << loaded, video, audio, audioMuted, canplayListeners, reseeked,
                  callVarsAll, store, upVars >>

\* the playing video of the session has advanced by d and fires timeupdate:
\* handleVideoTimeUpdate(sessionId)
timeupdateOf(sessionId, d) ==
  /\ Shown(sessionId) /\ ~videoRefs[sessionId].paused
  /\ videoRefs[sessionId].readyState >= HaveCurrentData
  /\ videoRefs[sessionId].currentTime < videoRefs[sessionId].duration
  /\ videoRefs' = [videoRefs EXCEPT ![sessionId] =
                     [@ EXCEPT !.currentTime = Min(@ + d, videoRefs[sessionId].duration)]]
  /\ audioRefs' = [audioRefs EXCEPT ![sessionId] =
                     handleVideoTimeUpdate(audioMutedOf[sessionId],
                                           videoRefs'[sessionId], @)]
  /\ UNCHANGED << audioMutedOf, canplayListenersOf >>
  /\ UNCHANGED << loaded, video, audio, audioMuted, canplayListeners, reseeked,
                  callVarsAll, store, upVars >>

\* the playing audio of the session has advanced by e
audioProgressOf(sessionId, e) ==
  /\ audioRefs[sessionId].exists /\ ~audioRefs[sessionId].paused
  /\ audioRefs[sessionId].currentTime < audioRefs[sessionId].duration
  /\ audioRefs' = [audioRefs EXCEPT ![sessionId] =
                     [@ EXCEPT !.currentTime =
                                 Min(@ + e, audioRefs[sessionId].duration)]]
  /\ UNCHANGED << videoRefs, audioMutedOf, canplayListenersOf >>
  /\ UNCHANGED << loaded, video, audio, audioMuted, canplayListeners, reseeked,
                  callVarsAll, store, upVars >>

\* the video of the session has reached its end: handleVideoPause(sessionId)
\* and handleVideoEnded(sessionId)
handleVideoEndedOf(sessionId) ==
  /\ Shown(sessionId) /\ ~videoRefs[sessionId].paused
  /\ videoRefs[sessionId].currentTime = videoRefs[sessionId].duration
  /\ videoRefs' = [videoRefs EXCEPT ![sessionId] = [@ EXCEPT !.paused = TRUE]]
  /\ audioRefs' = IF audioRefs[sessionId].exists
                  THEN [audioRefs EXCEPT ![sessionId] =
                          [@ EXCEPT !.paused = TRUE, !.currentTime = 0]]
                  ELSE audioRefs
  /\ UNCHANGED << audioMutedOf, canplayListenersOf >>
  /\ UNCHANGED << loaded, video, audio, audioMuted, canplayListeners, reseeked,
                  callVarsAll, store, upVars >>

\* The button as it would be did it build the new mute flags without the
\* flags of the other sessions.
toggleAudioAlone(sessionId, plays) ==
  /\ Shown(sessionId) /\ audioRefs[sessionId].exists
  /\ audioMutedOf' = [s \in SessionIds |->
                        IF s = sessionId THEN ~audioMutedOf[sessionId] ELSE FALSE]
  /\ audioRefs' = [audioRefs EXCEPT ![sessionId] =
                     IF ~audioMutedOf[sessionId]
                     THEN [@ EXCEPT !.paused = TRUE]
                     ELSE IF ~videoRefs[sessionId].paused
                          THEN SyncAndPlay(@, videoRefs[sessionId], plays)
                          ELSE @]
  /\ UNCHANGED << videoRefs, canplayListenersOf >>
  /\ UNCHANGED << loaded, video, audio, audioMuted, canplayListeners, reseeked,
                  callVarsAll, store, upVars >>

\* toggleAudio(sessionId): setAudioMuted(prev => ({ ...prev, [sessionId]:
\* !prev[sessionId] })) and the pause or play of the session's audio
toggleAudioOf(sessionId, plays) ==
  /\ Shown(sessionId) /\ audioRefs[sessionId].exists
  /\ audioMutedOf' = [audioMutedOf EXCEPT ![sessionId] = ~@]
  /\ audioRefs' = [audioRefs EXCEPT ![sessionId] =
                     IF ~audioMutedOf[sessionId]
                     THEN [@ EXCEPT !.paused = TRUE]
                     ELSE IF ~videoRefs[sessionId].paused
                          THEN SyncAndPlay(@, videoRefs[sessionId], plays)
                          ELSE @]
  /\ UNCHANGED << videoRefs, canplayListenersOf >>
  /\ UNCHANGED << loaded, video, audio, audioMuted, canplayListeners, reseeked,
                  callVarsAll, store, upVars >>

NextSessions ==
  \/ \E hasAudio \in [SessionIds -> BOOLEAN] : renderMediaSessions(hasAudio)
  \/ \E s \in SessionIds, plays \in BOOLEAN : handleVideoPlayOf(s, plays)
  \/ \E s \in SessionIds, plays \in BOOLEAN : canplayOf(s, plays)
  \/ \E s \in SessionIds : handleVideoPauseOf(s)
  \/ \E s \in SessionIds, d \in 1..MaxShownStep : timeupdateOf(s, d)
  \/ \E s \in SessionIds, e \in 1..MaxShownStep : audioProgressOf(s, e)
  \/ \E s \in SessionIds : handleVideoEndedOf(s)
  \/ \E s \in SessionIds, plays \in BOOLEAN : toggleAudioOf(s, plays)

SpecSessions == Init /\ [][NextSessions]_vars

\* a step in which the video of the session fires play, canplay, pause,
\* timeupdate or ended, or its audio button is pressed
SessionEventStep(sessionId) ==
  \/ \E plays \in BOOLEAN : handleVideoPlayOf(sessionId, plays)
  \/ \E plays \in BOOLEAN : canplayOf(sessionId, plays)
  \/ handleVideoPauseOf(sessionId)
  \/ \E d \in 1..MaxShownStep : timeupdateOf(sessionId, d)
  \/ handleVideoEndedOf(sessionId)
  \/ \E plays \in BOOLEAN : toggleAudioOf(sessionId, plays)

\* C38: the events of one session leave every other session as it is: the
\* position and the playing state of its audio element, its mute flag, its
\* video and its waiting canplay listeners.
C38_SessionsIndependent ==
  [][\A a \in SessionIds :
       SessionEventStep(a) =>
         \A b \in SessionIds \ {a} :
           /\ audioRefs'[b] = audioRefs[b]
           /\ audioMutedOf'[b] = audioMutedOf[b]
           /\ videoRefs'[b] = videoRefs[b]
           /\ canplayListenersOf'[b] = canplayListenersOf[b]]_vars

\* two sessions play at once, one with its audio playing and the other
\* muted, each at a position of its own
C38_TwoSessionsPlaying ==
  \E a \in SessionIds, b \in SessionIds :
    /\ a # b
    /\ ~videoRefs[a].paused /\ ~audioRefs[a].paused /\ ~audioMutedOf[a]
    /\ ~videoRefs[b].paused /\ audioRefs[b].exists /\ audioMutedOf[b]
    /\ audioRefs[b].paused
    /\ videoRefs[a].currentTime > videoRefs[b].currentTime
    /\ videoRefs[b].currentTime > 0

====
